---------------------------- MODULE Spec2Model ----------------------------
(***************************************************************************)
(* A model of the SQL generation engine of SqlUtils (package sql_builder), *)
(* of the shared Condition instance-id counter, and of the data correction *)
(* and connection layer (package sqlbbw: cast_df, DataCorrector, retry,    *)
(* SqlCon.append).                                                         *)
(*                                                                         *)
(* Text is modelled character by character: a Python str is a sequence of  *)
(* one-character strings, so that the regular expressions of the code      *)
(* (identifier check, expression check, index substitution, placeholder    *)
(* rewriting, the tokenizer of Condition.from_string) are computed as the  *)
(* code computes them.                                                     *)
(* A Python value is a record [t |-> its type, s |-> its text].            *)
(* A Python dict is a sequence of [k |-> key, v |-> value] records in      *)
(* insertion order (dicts keep insertion order; list(d.values()) reads it).*)
(*                                                                         *)
(* Spec is the engine used by one caller: each action is one whole call of *)
(* a builder, of adapt_sql, of a json_* handler or of from_string, with    *)
(* its inputs and its outcome kept in call and result.  ThreadSpec is      *)
(* Condition.__init__ run by several threads over the shared counter.      *)
(* EngineSpec is one connection: each action is one whole call of          *)
(* DataCorrector.cols, DataCorrector.fix_rows or SqlCon.append against the *)
(* schema of the database.  RetrySpec is one call of a function wrapped by *)
(* retry, with the outcome of each of its attempts.                        *)
(***************************************************************************)
EXTENDS Integers, Sequences, FiniteSets, TLC

VARIABLES
    ids,        \* Condition._ids: the value the next next(_ids) returns
    call,       \* the builder call in progress or just finished (op, inputs)
    result,     \* what that call returned or raised
    pc,         \* per thread: position inside Condition.__init__
    uid,        \* per thread: the value its next(_ids) returned
    built,      \* conditions constructed so far by the threads, in store order
    taken,      \* ids in the order the increments took effect
    db,         \* SqlCon.db, DataCorrector.db: the database the connection was opened on
    schema,     \* the database: per table its columns and their types, as the inspector reports them
    col_cache,  \* DataCorrector.col_cache
    queries,    \* per table: how many times cols has called inspector.get_columns
    ecall       \* the last call of the sqlbbw package: its inputs, what happened, its outcome

vars == <<ids, call, result, pc, uid, built, taken, db, schema, col_cache, queries, ecall>>

-----------------------------------------------------------------------------
(* Bounds of the model *)

\* the counter is capped: no call starts once ids exceeds MaxIds
MaxIds == 2
\* length of the exhaustively enumerated combination expressions
MaxExprLen == 2
\* conditions constructed per thread in the concurrent specification
MaxPerThread == 2
\* the longest of the free texts enumerated in full
MaxTextLen == 3
\* calls of inspector.get_columns cols makes per table
MaxQueries == 2
\* the largest number of tries a retry is configured with
MaxTries == 3
\* the longest delay between tries, in seconds
MaxDelay == 1

-----------------------------------------------------------------------------
(* Characters and character classes (Python re, str patterns) *)

LowerLetters == <<"a","b","c","d","e","f","g","h","i","j","k","l","m","n","o","p","q","r","s","t","u","v","w","x","y","z">>
UpperLetters == <<"A","B","C","D","E","F","G","H","I","J","K","L","M","N","O","P","Q","R","S","T","U","V","W","X","Y","Z">>
DigitChars == <<"0","1","2","3","4","5","6","7","8","9">>

Range(s) == {s[i] : i \in 1..Len(s)}

AsciiLetters == Range(LowerLetters) \cup Range(UpperLetters)
AsciiDigits == Range(DigitChars)
\* a letter outside ASCII (e-acute), one character of the text
UnicodeLetters == {"U+00E9"}

\* \w of a str pattern: Unicode alphanumerics and the underscore
WordChars == AsciiLetters \cup AsciiDigits \cup {"_"} \cup UnicodeLetters
\* \d
IsDigit(c) == c \in AsciiDigits
\* \s
SpaceChars == {" ", "\t", "\n"}
IsWord(c) == c \in WordChars

IndexOf(s, c) == CHOOSE i \in 1..Len(s) : s[i] = c

\* str.upper / str.lower, one character
UpperChar(c) == IF c \in Range(LowerLetters) THEN UpperLetters[IndexOf(LowerLetters, c)] ELSE c
LowerChar(c) == IF c \in Range(UpperLetters) THEN LowerLetters[IndexOf(UpperLetters, c)] ELSE c
Upper(s) == [i \in 1..Len(s) |-> UpperChar(s[i])]
Lower(s) == [i \in 1..Len(s) |-> LowerChar(s[i])]

AllIn(s, S) == \A i \in 1..Len(s) : s[i] \in S

\* a local variable: v is computed once and the rest of the function, K, reads it
Bind(v, K(_)) == K(v)

RECURSIVE Join(_, _)
\* sep.join(parts)
Join(parts, sep) ==
    IF parts = <<>> THEN <<>>
    ELSE IF Len(parts) = 1 THEN parts[1]
    ELSE parts[1] \o sep \o Join(Tail(parts), sep)

\* s[i:j] with 1-based inclusive bounds
Slice(s, i, j) == IF j < i THEN <<>> ELSE SubSeq(s, i, j)

\* text.startswith(p, i) with i 1-based
StartsAt(s, p, i) == i + Len(p) - 1 <= Len(s) /\ SubSeq(s, i, i + Len(p) - 1) = p

\* text matching p at i, ignoring case (re.I)
StartsAtI(s, p, i) == i + Len(p) - 1 <= Len(s) /\ Upper(SubSeq(s, i, i + Len(p) - 1)) = Upper(p)

\* p in s
Contains(s, p) == \E i \in 1..(Len(s) + 1) : StartsAt(s, p, i)

RECURSIVE IntToText(_)
\* str(n) for n >= 0
IntToText(n) == IF n < 10 THEN <<DigitChars[n + 1]>> ELSE IntToText(n \div 10) \o <<DigitChars[(n % 10) + 1]>>

RECURSIVE TextToInt(_)
\* int(s) for a run of ASCII digits
TextToInt(s) == IF s = <<>> THEN 0 ELSE 10 * TextToInt(SubSeq(s, 1, Len(s) - 1)) + (IndexOf(DigitChars, s[Len(s)]) - 1)

\* the end of the run of characters of class S starting at i (i - 1 when s[i] is not in S)
RECURSIVE RunEnd(_, _, _)
RunEnd(s, i, S) == IF i <= Len(s) /\ s[i] \in S THEN RunEnd(s, i + 1, S) ELSE i - 1

RECURSIVE Ascending(_)
\* the elements of a finite set of integers in ascending order
Ascending(S) ==
    IF S = {} THEN <<>>
    ELSE LET m == CHOOSE x \in S : \A y \in S : x <= y IN <<m>> \o Ascending(S \ {m})

RECURSIVE Splice(_, _, _)
\* s from position i on with each match of ms (ascending, disjoint: [from, to, by]) replaced by its text:
\* what re.sub returns for the non-overlapping matches found scanning left to right
Splice(s, i, ms) ==
    IF ms = <<>> THEN Slice(s, i, Len(s))
    ELSE Slice(s, i, ms[1].from - 1) \o ms[1].by \o Splice(s, ms[1].to + 1, Tail(ms))

-----------------------------------------------------------------------------
(* Python dicts, in insertion order *)

HasKey(d, k) == \E i \in 1..Len(d) : d[i].k = k
Get(d, k) == d[CHOOSE i \in 1..Len(d) : d[i].k = k].v

\* d[k] = v
DictSet(d, k, v) ==
    IF HasKey(d, k)
    THEN [i \in 1..Len(d) |-> IF d[i].k = k THEN [k |-> k, v |-> v] ELSE d[i]]
    ELSE Append(d, [k |-> k, v |-> v])

RECURSIVE DictUpdate(_, _)
\* d.update(e)
DictUpdate(d, e) == IF e = <<>> THEN d ELSE DictUpdate(DictSet(d, e[1].k, e[1].v), Tail(e))

\* list(d.values())
DictValues(d) == [i \in 1..Len(d) |-> d[i].v]
DictKeys(d) == [i \in 1..Len(d) |-> d[i].k]

-----------------------------------------------------------------------------
(* Python values *)

NoneVal == [t |-> "none", s |-> <<>>]
IntVal(n) == [t |-> "int", s |-> IntToText(n)]
StrVal(s) == [t |-> "str", s |-> s]

-----------------------------------------------------------------------------
(* The regular expressions of the code *)

\* re.match(r'^[\w]+$', name): $ also matches just before a final newline
IdentifierOk(name) ==
    \/ Len(name) >= 1 /\ AllIn(name, WordChars)
    \/ Len(name) >= 2 /\ name[Len(name)] = "\n" /\ AllIn(SubSeq(name, 1, Len(name) - 1), WordChars)

\* the characters ^[\d\sANDOR()]+$ admits
ExprChars == AsciiDigits \cup SpaceChars \cup {"A", "N", "D", "O", "R", "(", ")"}

\* re.match(r'^[\d\sANDOR()]+$', expression)
ExpressionCharsOk(expression) == Len(expression) >= 1 /\ AllIn(expression, ExprChars)

\* two digits
TwoDigits(s, i) == i + 1 <= Len(s) /\ IsDigit(s[i]) /\ IsDigit(s[i + 1])

\* \d{4}-\d{2}-\d{2} at the start of s
DatePart(s) ==
    /\ Len(s) >= 10
    /\ TwoDigits(s, 1) /\ TwoDigits(s, 3) /\ s[5] = "-"
    /\ TwoDigits(s, 6) /\ s[8] = "-" /\ TwoDigits(s, 9)

\* " \d{2}:\d{2}:\d{2}" at position 11 of s
TimePart(s) ==
    /\ Len(s) >= 19
    /\ s[11] = " " /\ TwoDigits(s, 12) /\ s[14] = ":"
    /\ TwoDigits(s, 15) /\ s[17] = ":" /\ TwoDigits(s, 18)

\* re.match(r'^\d{4}-\d{2}-\d{2}(?: \d{2}:\d{2}:\d{2})?$', val)
DateTextOk(s) ==
    /\ DatePart(s)
    /\ \/ Len(s) = 10
       \/ Len(s) = 11 /\ s[11] = "\n"
       \/ TimePart(s) /\ (Len(s) = 19 \/ (Len(s) = 20 /\ s[20] = "\n"))

-----------------------------------------------------------------------------
(* Dialect profile registry *)

S_oracle == <<"o","r","a","c","l","e">>
S_mssql == <<"m","s","s","q","l">>
S_mysql == <<"m","y","s","q","l">>
S_postgres == <<"p","o","s","t","g","r","e","s">>
S_postgresql == <<"p","o","s","t","g","r","e","s","q","l">>
S_sqlite == <<"s","q","l","i","t","e">>
S_default == <<"d","e","f","a","u","l","t">>

\* placeholders.get(dialect, ':'): the canonical named marker
placeholders(dialect) == <<":">>

\* quote_chars.get(dialect, '"'); "U+0060" is the backtick, one character
quote_chars(dialect) == IF dialect = S_mysql THEN <<"U+0060">> ELSE <<"\"">>

\* the closed operator set
valid_operators ==
    { <<"=">>, <<"!","=">>, <<"<",">">>, <<"<">>, <<">">>, <<"<","=">>, <<">","=">>, <<"L","I","K","E">>, <<"I","L","I","K","E">>,
      <<"I","N">>, <<"N","O","T"," ","I","N">>, <<"B","E","T","W","E","E","N">>, <<"I","S"," ","N","U","L","L">>, <<"I","S"," ","N","O","T"," ","N","U","L","L">> }

-----------------------------------------------------------------------------
(* Results: a returned value, or the exception raised (exc = "" when none) *)

\* ptype tells a dict (params: [k, v] records) from a list (params: values)
Raise(exc, msg, n) == [exc |-> exc, msg |-> msg, sql |-> <<>>, ptype |-> "none", params |-> <<>>, ids |-> n]
Return(sql, params, n) == [exc |-> "", msg |-> "", sql |-> sql, ptype |-> "dict", params |-> params, ids |-> n]
ReturnList(sql, values, n) == [exc |-> "", msg |-> "", sql |-> sql, ptype |-> "list", params |-> values, ids |-> n]

-----------------------------------------------------------------------------
(* Condition *)

NoCondition == [field |-> <<>>, op |-> <<>>, values |-> <<>>, aggregate |-> <<>>, uid |-> 0]

\* a counter whose increment is lost: the next caller is handed the same id
NextIdLost(n) == n

\* the counter after next(_ids) has returned n
NextId(n) == n + 1

\* Condition.__init__: cond is the object, ids the counter afterwards
ConditionInit(field, op, values, aggregate, n) ==
    IF ~IdentifierOk(field)
    THEN [exc |-> "ValueError", msg |-> "Invalid field name", cond |-> NoCondition, ids |-> n]
    ELSE IF Upper(op) \notin valid_operators
    THEN [exc |-> "ValueError", msg |-> "Invalid operator", cond |-> NoCondition, ids |-> n]
    ELSE [exc |-> "", msg |-> "",
          cond |-> [field |-> field, op |-> Upper(op), values |-> values, aggregate |-> aggregate, uid |-> n],
          ids |-> NextId(n)]

RECURSIVE LStrip(_)
LStrip(s) == IF s # <<>> /\ s[1] \in SpaceChars THEN LStrip(Tail(s)) ELSE s
RECURSIVE RStrip(_)
RStrip(s) == IF s # <<>> /\ s[Len(s)] \in SpaceChars THEN RStrip(SubSeq(s, 1, Len(s) - 1)) ELSE s
\* str.strip()
Strip(s) == RStrip(LStrip(s))

RECURSIVE SplitFrom(_, _, _)
\* the pieces of s[i:] between occurrences of sep; start is where the current piece begins
SplitFrom(s, sep, start) ==
    LET hits == {i \in start..Len(s) : s[i] = sep} IN
    IF hits = {} THEN <<Slice(s, start, Len(s))>>
    ELSE LET i == CHOOSE h \in hits : \A g \in hits : h <= g IN
         <<Slice(s, start, i - 1)>> \o SplitFrom(s, sep, i + 1)
\* s.split(sep) for a one-character sep
Split(s, sep) == SplitFrom(s, sep, 1)

(* Condition.from_string: the tokenizer, the coercion of literals, the parser *)

\* \b at position p: exactly one of text[p - 1] and text[p] is a word character
Boundary(text, p) ==
    (p - 1 >= 1 /\ p - 1 <= Len(text) /\ IsWord(text[p - 1]))
        # (p >= 1 /\ p <= Len(text) /\ IsWord(text[p]))

\* the alternatives of master_re in the order of token_spec; word is the text of a keyword
\* alternative \bword\b (empty for the others)
token_spec ==
    << [name |-> "WHITESPACE", word |-> <<>>],
       [name |-> "IS_NOT_NULL", word |-> <<"I","S"," ","N","O","T"," ","N","U","L","L">>],
       [name |-> "IS_NULL", word |-> <<"I","S"," ","N","U","L","L">>],
       [name |-> "NOT_IN", word |-> <<"N","O","T"," ","I","N">>],
       [name |-> "NOT", word |-> <<"N","O","T">>],
       [name |-> "BETWEEN", word |-> <<"B","E","T","W","E","E","N">>],
       [name |-> "IN", word |-> <<"I","N">>],
       [name |-> "ILIKE", word |-> <<"I","L","I","K","E">>],
       [name |-> "LIKE", word |-> <<"L","I","K","E">>],
       [name |-> "COMP_OP", word |-> <<>>],
       [name |-> "LP", word |-> <<>>],
       [name |-> "RP", word |-> <<>>],
       [name |-> "STRING", word |-> <<>>],
       [name |-> "NUMBER", word |-> <<>>],
       [name |-> "AND", word |-> <<"A","N","D">>],
       [name |-> "OR", word |-> <<"O","R">>],
       [name |-> "IDENT", word |-> <<>>],
       [name |-> "COMMA", word |-> <<>> ] >>

\* Each ...End(text, pos) is the last position of the match of one alternative at pos,
\* pos - 1 when the alternative does not match there.

\* \bword\b, ignoring case
KeywordEnd(text, word, pos) ==
    IF Boundary(text, pos) /\ StartsAtI(text, word, pos) /\ Boundary(text, pos + Len(word))
    THEN pos + Len(word) - 1 ELSE pos - 1

\* !=|<>|<=|>=|>|<|=
CompOpEnd(text, pos) ==
    IF \E op \in { <<"!","=">>, <<"<",">">>, <<"<","=">>, <<">","=">> } : StartsAt(text, op, pos) THEN pos + 1
    ELSE IF text[pos] \in {">", "<", "="} THEN pos
    ELSE pos - 1

RECURSIVE QuotedBodyOk(_, _, _)
\* text[a..b] is a run of (?:[^']|'')
QuotedBodyOk(text, a, b) ==
    IF a > b THEN TRUE
    ELSE IF text[a] # "'" THEN QuotedBodyOk(text, a + 1, b)
    ELSE a + 1 <= b /\ text[a + 1] = "'" /\ QuotedBodyOk(text, a + 2, b)

\* '(?:[^']|'')*': the greedy star gives the match back quote by quote, so the match ends at
\* the last quote before which the body is a run of non-quotes and doubled quotes
StringEnd(text, pos) ==
    IF text[pos] # "'" THEN pos - 1
    ELSE Bind({e \in (pos + 1)..Len(text) : text[e] = "'" /\ QuotedBodyOk(text, pos + 1, e - 1)}, LAMBDA ends :
         IF ends = {} THEN pos - 1 ELSE CHOOSE e \in ends : \A o \in ends : o <= e)

\* \d+(?:\.\d+)?
NumberEnd(text, pos) ==
    Bind(RunEnd(text, pos, AsciiDigits), LAMBDA e :
         IF e >= pos /\ e + 2 <= Len(text) /\ text[e + 1] = "." /\ IsDigit(text[e + 2])
         THEN RunEnd(text, e + 2, AsciiDigits) ELSE e)

\* [A-Za-z_]\w*
IdentEnd(text, pos) ==
    IF text[pos] \in AsciiLetters \cup {"_"} THEN RunEnd(text, pos + 1, WordChars) ELSE pos - 1

\* the match of one alternative of token_spec at pos
MatchEnd(alt, text, pos) ==
    IF alt.word # <<>> THEN KeywordEnd(text, alt.word, pos)
    ELSE IF alt.name = "WHITESPACE" THEN RunEnd(text, pos, SpaceChars)
    ELSE IF alt.name = "COMP_OP" THEN CompOpEnd(text, pos)
    ELSE IF alt.name = "LP" THEN (IF text[pos] = "(" THEN pos ELSE pos - 1)
    ELSE IF alt.name = "RP" THEN (IF text[pos] = ")" THEN pos ELSE pos - 1)
    ELSE IF alt.name = "STRING" THEN StringEnd(text, pos)
    ELSE IF alt.name = "NUMBER" THEN NumberEnd(text, pos)
    ELSE IF alt.name = "IDENT" THEN IdentEnd(text, pos)
    ELSE (IF text[pos] = "," THEN pos ELSE pos - 1)

RECURSIVE MasterMatch(_, _, _)
\* master_re.match(text, pos): the first alternative from the k-th on that matches at pos,
\* [kind (m.lastgroup), end]; kind "" when none matches
MasterMatch(text, pos, k) ==
    IF k > Len(token_spec) THEN [kind |-> "", end |-> pos - 1]
    ELSE Bind(MatchEnd(token_spec[k], text, pos), LAMBDA e :
         IF e >= pos THEN [kind |-> token_spec[k].name, end |-> e]
         ELSE MasterMatch(text, pos, k + 1))

RECURSIVE Unescape(_)
\* s.replace("''", "'")
Unescape(s) ==
    IF Len(s) >= 2 /\ s[1] = "'" /\ s[2] = "'" THEN <<"'">> \o Unescape(SubSeq(s, 3, Len(s)))
    ELSE IF s = <<>> THEN <<>>
    ELSE <<s[1]>> \o Unescape(Tail(s))

\* the value of a token: the matched text, for a STRING without the quotes and unescaped
TokenValue(kind, matched) ==
    IF kind = "STRING" THEN Unescape(SubSeq(matched, 2, Len(matched) - 1)) ELSE matched

RECURSIVE Tokenize(_, _)
\* _tokenize(text) from position pos on: [exc, tokens], each token [kind, value]
Tokenize(text, pos) ==
    IF pos > Len(text) THEN [exc |-> "", tokens |-> <<>>]
    ELSE Bind(MasterMatch(text, pos, 1), LAMBDA m :
         IF m.kind = "" THEN [exc |-> "SyntaxError", tokens |-> <<>>]
         ELSE Bind(Tokenize(text, m.end + 1), LAMBDA rest :
              IF rest.exc # "" \/ m.kind = "WHITESPACE" THEN rest
              ELSE [exc |-> "",
                    tokens |-> <<[kind |-> m.kind, value |-> TokenValue(m.kind, SubSeq(text, pos, m.end))]>>
                               \o rest.tokens]))

BoolVal(b) == [t |-> "bool", s |-> IF b THEN <<"T","r","u","e">> ELSE <<"F","a","l","s","e">>]
FloatVal(s) == [t |-> "float", s |-> s]

\* digits, with single underscores between digits
DigitRunOk(s) ==
    /\ s # <<>>
    /\ AllIn(s, AsciiDigits \cup {"_"})
    /\ IsDigit(s[1]) /\ IsDigit(s[Len(s)])
    /\ \A i \in 1..(Len(s) - 1) : ~(s[i] = "_" /\ s[i + 1] = "_")

\* s without a leading sign
Unsigned(s) == IF s # <<>> /\ s[1] \in {"+", "-"} THEN Tail(s) ELSE s

\* int(s) succeeds (s stripped): an optional sign and a run of digits
IntParses(s) == DigitRunOk(Unsigned(s))

RECURSIVE DropLeadingZeros(_)
DropLeadingZeros(s) == IF Len(s) >= 2 /\ s[1] = "0" THEN DropLeadingZeros(Tail(s)) ELSE s

\* str(int(s)): the digits without underscores and leading zeros, the minus sign kept
\* for a negative number
IntText(s) ==
    Bind(DropLeadingZeros(SelectSeq(Unsigned(s), IsDigit)), LAMBDA digits :
         IF s[1] = "-" /\ digits # <<"0">> THEN <<"-">> \o digits ELSE digits)

\* digits, digits with a point, or a point and digits
MantissaOk(m) ==
    \/ DigitRunOk(m)
    \/ \E k \in 1..Len(m) :
          /\ m[k] = "."
          /\ Len(m) >= 2
          /\ k = 1 \/ DigitRunOk(SubSeq(m, 1, k - 1))
          /\ k = Len(m) \/ DigitRunOk(SubSeq(m, k + 1, Len(m)))

\* float(s) succeeds (s stripped): a signed decimal with an optional exponent, or inf,
\* infinity, nan in any case
FloatParses(s) ==
    Bind(Unsigned(s), LAMBDA body :
         \/ MantissaOk(body)
         \/ \E k \in 2..(Len(body) - 1) :
               /\ body[k] \in {"e", "E"}
               /\ MantissaOk(SubSeq(body, 1, k - 1))
               /\ DigitRunOk(Unsigned(SubSeq(body, k + 1, Len(body))))
         \/ Lower(body) \in { <<"i","n","f">>, <<"i","n","f","i","n","i","t","y">>, <<"n","a","n">> })

\* a coercion that tries the integer before the boolean words
CoerceIntegerFirst(val) ==
    Bind(Strip(val), LAMBDA v :
         IF IntParses(v) THEN [t |-> "int", s |-> IntText(v)]
         ELSE IF Lower(v) \in { <<"t","r","u","e">>, <<"y","e","s">>, <<"y">>, <<"1">> } THEN BoolVal(TRUE)
         ELSE IF Lower(v) \in { <<"f","a","l","s","e">>, <<"n","o">>, <<"n">>, <<"0">> } THEN BoolVal(FALSE)
         ELSE IF FloatParses(v) THEN FloatVal(v)
         ELSE StrVal(v))

\* _coerce(val); a float keeps the text it was parsed from
Coerce(val) ==
    Bind(Strip(val), LAMBDA v :
         IF Lower(v) \in { <<"t","r","u","e">>, <<"y","e","s">>, <<"y">>, <<"1">> } THEN BoolVal(TRUE)
         ELSE IF Lower(v) \in { <<"f","a","l","s","e">>, <<"n","o">>, <<"n">>, <<"0">> } THEN BoolVal(FALSE)
         ELSE IF IntParses(v) THEN [t |-> "int", s |-> IntText(v)]
         ELSE IF FloatParses(v) THEN FloatVal(v)
         ELSE StrVal(v))

\* an exception raised before any Condition is constructed
NoConditionMade(exc, msg, n) == [exc |-> exc, msg |-> msg, cond |-> NoCondition, ids |-> n]

\* the loop over rest[1:-1]: the STRING and NUMBER tokens, coerced
ListValues(rest) ==
    Bind(SelectSeq(SubSeq(rest, 2, Len(rest) - 1), LAMBDA tk : tk.kind \in {"STRING", "NUMBER"}), LAMBDA kept :
         [i \in 1..Len(kept) |-> Coerce(kept[i].value)])

\* rest is not of the shape ( ... )
NotParenthesized(rest) == rest = <<>> \/ rest[1].kind # "LP" \/ rest[Len(rest)].kind # "RP"

\* from_string after the field: op is tokens[1], rest is tokens[2:]
ParseClause(field, op, rest, n) ==
    IF op.kind = "IS_NULL" THEN ConditionInit(field, <<"I","S"," ","N","U","L","L">>, <<>>, <<>>, n)
    ELSE IF op.kind = "IS_NOT_NULL" THEN ConditionInit(field, <<"I","S"," ","N","O","T"," ","N","U","L","L">>, <<>>, <<>>, n)
    ELSE IF op.kind = "COMP_OP"
    THEN IF rest = <<>> THEN NoConditionMade("ValueError", "Missing value for comparison", n)
         ELSE ConditionInit(field, op.value, <<Coerce(rest[1].value)>>, <<>>, n)
    ELSE IF op.kind \in {"LIKE", "ILIKE"}
    THEN IF rest = <<>> \/ rest[1].kind # "STRING"
         THEN NoConditionMade("ValueError", "LIKE/ILIKE requires string value", n)
         ELSE ConditionInit(field, Upper(op.value), <<StrVal(rest[1].value)>>, <<>>, n)
    ELSE IF op.kind = "BETWEEN"
    THEN IF Len(rest) # 3 \/ Upper(rest[2].value) # <<"A","N","D">>
         THEN NoConditionMade("ValueError", "BETWEEN requires <low> AND <high>", n)
         ELSE ConditionInit(field, <<"B","E","T","W","E","E","N">>, <<Coerce(rest[1].value), Coerce(rest[3].value)>>, <<>>, n)
    ELSE IF op.kind \in {"IN", "NOT_IN"}
    THEN IF NotParenthesized(rest) THEN NoConditionMade("ValueError", "requires (values)", n)
         ELSE ConditionInit(field, Upper(op.value), ListValues(rest), <<>>, n)
    ELSE IF op.kind = "NOT" /\ rest # <<>> /\ rest[1].kind = "IN"
    THEN IF NotParenthesized(Tail(rest)) THEN NoConditionMade("ValueError", "NOT IN requires (values)", n)
         ELSE ConditionInit(field, <<"N","O","T"," ","I","N">>, ListValues(Tail(rest)), <<>>, n)
    ELSE NoConditionMade("ValueError", "Cannot parse condition", n)

\* Condition.from_string(text)
FromString(text, n) ==
    Bind(Tokenize(text, 1), LAMBDA tk :
         IF tk.exc # "" THEN NoConditionMade(tk.exc, "Unexpected char", n)
         ELSE IF tk.tokens = <<>> THEN NoConditionMade("ValueError", "Empty condition", n)
         ELSE IF tk.tokens[1].kind # "IDENT"
         THEN NoConditionMade("ValueError", "Condition must start with field name", n)
         ELSE IF Len(tk.tokens) < 2 THEN NoConditionMade("ValueError", "Incomplete condition", n)
         ELSE ParseClause(tk.tokens[1].value, tk.tokens[2], SubSeq(tk.tokens, 3, Len(tk.tokens)), n))

\* Condition.from_input for a dict, a str or a tuple item
\* (value.shape: "list" a list, "scalar" one value that is not a list)
FromInput(item, n) ==
    IF item.kind = "dict"
    THEN ConditionInit(item.field, item.operator, item.value.items, item.aggregate, n)
    ELSE IF item.kind = "text" THEN FromString(item.text, n)
    ELSE IF item.value.shape = "scalar" /\ item.value.items[1].t = "str"
         THEN LET pieces == Split(item.value.items[1].s, ",") IN
              ConditionInit(item.field, item.operator,
                            [i \in 1..Len(pieces) |-> StrVal(Strip(pieces[i]))], <<>>, n)
         ELSE ConditionInit(item.field, item.operator, item.value.items, <<>>, n)

\* SQLBuilder._get_dt_wrapper: wrap(ph_val, op, val)
WrapDt(dialect, ph_val, op, val) ==
    IF /\ op \in { <<"=">>, <<"!","=">>, <<"<">>, <<">">>, <<"<","=">>, <<">","=">> }
       /\ val.t = "str"
       /\ DateTextOk(val.s)
    THEN IF dialect = S_oracle THEN <<"T","O","_","D","A","T","E","(">> \o ph_val \o <<","," ","'","Y","Y","Y","Y","-","M","M","-","D","D"," ","H","H","2","4",":","M","I",":","S","S","'",")">>
         ELSE IF dialect = S_mssql THEN <<"C","A","S","T","(">> \o ph_val \o <<" ","A","S"," ","D","A","T","E","T","I","M","E","2",")">>
         ELSE ph_val
    ELSE ph_val

\* the parameter name stem {field}_{uid}
PnameBase(c) == c.field \o <<"_">> \o IntToText(c.uid)

\* Condition.to_sql: [exc, frag, params]
ToSql(c, dialect, ph, quote_char) ==
    LET quoted == quote_char \o c.field \o quote_char
        col_str == IF c.aggregate # <<>> THEN Upper(c.aggregate) \o <<"(">> \o quoted \o <<")">> ELSE quoted
        pname_base == PnameBase(c)
        fail == [exc |-> "IndexError", frag |-> <<>>, params |-> <<>>]
    IN
    IF c.op \in { <<"I","S"," ","N","U","L","L">>, <<"I","S"," ","N","O","T"," ","N","U","L","L">> }
    THEN [exc |-> "", frag |-> col_str \o <<" ">> \o c.op, params |-> <<>>]
    ELSE IF c.op = <<"B","E","T","W","E","E","N">>
    THEN IF Len(c.values) < 2 THEN fail
         ELSE [exc |-> "",
               frag |-> col_str \o <<" ","B","E","T","W","E","E","N"," ">> \o ph \o pname_base \o <<"_","m","i","n">>
                        \o <<" ","A","N","D"," ">> \o ph \o pname_base \o <<"_","m","a","x">>,
               params |-> DictSet(DictSet(<<>>, pname_base \o <<"_","m","i","n">>, c.values[1]),
                                  pname_base \o <<"_","m","a","x">>, c.values[2])]
    ELSE IF c.op \in { <<"I","N">>, <<"N","O","T"," ","I","N">> }
    THEN LET keys == [i \in 1..Len(c.values) |-> ph \o pname_base \o <<"_">> \o IntToText(i - 1)] IN
         [exc |-> "",
          frag |-> col_str \o <<" ">> \o c.op \o <<" ","(">> \o Join(keys, <<",">>) \o <<")">>,
          params |-> DictUpdate(<<>>, [i \in 1..Len(c.values) |->
                         [k |-> pname_base \o <<"_">> \o IntToText(i - 1), v |-> c.values[i]]])]
    ELSE IF c.op \in { <<"L","I","K","E">>, <<"I","L","I","K","E">> }
    THEN IF c.values = <<>> THEN fail
         ELSE [exc |-> "",
               frag |-> col_str \o <<" ">> \o c.op \o <<" ">> \o ph \o pname_base,
               params |-> DictSet(<<>>, pname_base, c.values[1])]
    ELSE IF c.op \in { <<"=">>, <<"!","=">>, <<"<",">">>, <<"<">>, <<">">>, <<"<","=">>, <<">","=">> }
    THEN IF c.values = <<>> THEN fail
         ELSE [exc |-> "",
               frag |-> col_str \o <<" ">> \o c.op \o <<" ">>
                        \o WrapDt(dialect, ph \o pname_base, c.op, c.values[1]),
               params |-> DictSet(<<>>, pname_base, c.values[1])]
    ELSE [exc |-> "ValueError", frag |-> <<>>, params |-> <<>>]

-----------------------------------------------------------------------------
(* SQLBuilder.build_where *)

RECURSIVE FromInputs(_, _)
\* [Condition.from_input(c) for c in conditions]: stops at the first item that raises
FromInputs(items, n) ==
    IF items = <<>> THEN [exc |-> "", msg |-> "", objs |-> <<>>, ids |-> n]
    ELSE Bind(FromInput(items[1], n), LAMBDA first :
         IF first.exc # "" THEN [exc |-> first.exc, msg |-> first.msg, objs |-> <<>>, ids |-> first.ids]
         ELSE Bind(FromInputs(Tail(items), first.ids), LAMBDA rest :
              [exc |-> rest.exc, msg |-> rest.msg, objs |-> <<first.cond>> \o rest.objs, ids |-> rest.ids]))

RECURSIVE Compile(_, _, _, _)
\* the loop over objs: sql_parts and the merged params, or the exception of the first to_sql that raises
Compile(objs, dialect, sql_parts, params) ==
    IF objs = <<>> THEN [exc |-> "", sql_parts |-> sql_parts, params |-> params]
    ELSE Bind(ToSql(objs[1], dialect, placeholders(dialect), quote_chars(dialect)), LAMBDA r :
         IF r.exc # "" THEN [exc |-> r.exc, sql_parts |-> <<>>, params |-> <<>>]
         ELSE Compile(Tail(objs), dialect, Append(sql_parts, r.frag), DictUpdate(params, r.params)))

\* whether \b\d+\b matches at i, and then up to where (0 when it does not)
IndexMatchEnd(e, i) ==
    IF IsDigit(e[i]) /\ (i = 1 \/ ~IsWord(e[i - 1]))
    THEN LET j == RunEnd(e, i, AsciiDigits) IN
         IF j = Len(e) \/ ~IsWord(e[j + 1]) THEN j ELSE 0
    ELSE 0

RECURSIVE SubIndices(_, _, _)
\* re.sub(r'\b\d+\b', repl, expression) from position i on: [exc, text]
SubIndices(e, i, sql_parts) ==
    IF i > Len(e) THEN [exc |-> "", text |-> <<>>]
    ELSE Bind(IndexMatchEnd(e, i), LAMBDA j :
         IF j = 0
         THEN Bind(SubIndices(e, i + 1, sql_parts), LAMBDA rest :
              [exc |-> rest.exc, text |-> IF rest.exc = "" THEN <<e[i]>> \o rest.text ELSE <<>>])
         ELSE Bind(TextToInt(SubSeq(e, i, j)) - 1, LAMBDA idx :
              IF idx < 0 \/ idx >= Len(sql_parts)
              THEN [exc |-> "ValueError", text |-> <<>>]
              ELSE Bind(SubIndices(e, j + 1, sql_parts), LAMBDA rest :
                   [exc |-> rest.exc, text |-> IF rest.exc = "" THEN sql_parts[idx + 1] \o rest.text ELSE <<>>])))

\* build_where(conditions, expression); conditions: [none, items], expression: [none, text]
BuildWhere(dialect, conditions, expression, n) ==
    IF conditions.none \/ conditions.items = <<>> THEN Return(<<>>, <<>>, n)
    ELSE Bind(FromInputs(conditions.items, n), LAMBDA made :
         IF made.exc # "" THEN Raise(made.exc, made.msg, made.ids)
         ELSE Bind(Compile(made.objs, dialect, <<>>, <<>>), LAMBDA c :
              IF c.exc # "" THEN Raise(c.exc, "to_sql", made.ids)
              ELSE IF expression.none THEN Return(Join(c.sql_parts, <<" ","A","N","D"," ">>), c.params, made.ids)
              ELSE Bind(SubIndices(expression.text, 1, c.sql_parts), LAMBDA w :
                   IF w.exc # "" THEN Raise("ValueError", "Invalid index in expression", made.ids)
                   ELSE IF ~ExpressionCharsOk(expression.text)
                   THEN Raise("ValueError", "Invalid characters in expression", made.ids)
                   ELSE Return(w.text, c.params, made.ids))))

-----------------------------------------------------------------------------
(* SQLBuilder: statement builders.  dialect is self.dialect (already       *)
(* lower-cased by __init__), q the quote character, ph the placeholder.    *)

Quote(dialect, name) == quote_chars(dialect) \o name \o quote_chars(dialect)
QuoteAll(dialect, names) == [i \in 1..Len(names) |-> Quote(dialect, names[i])]

\* an optional integer argument: [none, n]
OrZero(x) == IF x.none THEN 0 ELSE x.n

\* the pagination tail of select
Pagination(dialect, limit, offset) ==
    IF offset.none /\ limit.none THEN <<>>
    ELSE IF dialect \in {S_postgres, S_sqlite}
    THEN <<" ","O","F","F","S","E","T"," ">> \o IntToText(OrZero(offset))
         \o (IF ~limit.none THEN <<" ","L","I","M","I","T"," ">> \o IntToText(limit.n) ELSE <<>>)
    ELSE IF dialect \in {S_oracle, S_mssql}
    THEN <<" ","O","F","F","S","E","T"," ">> \o IntToText(OrZero(offset)) \o <<" ","R","O","W","S">>
         \o (IF ~limit.none THEN <<" ","F","E","T","C","H"," ","N","E","X","T"," ">> \o IntToText(limit.n) \o <<" ","R","O","W","S"," ","O","N","L","Y">> ELSE <<>>)
    ELSE IF dialect = S_mysql
    THEN (IF ~limit.none THEN <<" ","L","I","M","I","T"," ">> \o IntToText(limit.n) ELSE <<>>)
         \o (IF OrZero(offset) # 0 THEN <<" ","O","F","F","S","E","T"," ">> \o IntToText(offset.n) ELSE <<>>)
    ELSE <<>>

\* the order_by check: every field an identifier, every direction ASC or DESC
OrderByOk(order_by) ==
    \A i \in 1..Len(order_by) :
        IdentifierOk(order_by[i].field) /\ Upper(order_by[i].direction) \in { <<"A","S","C">>, <<"D","E","S","C">> }

\* SQLBuilder.select; columns: [isList, names, raw]; a.group_by, a.order_by: sequences (empty: not given)
Select(dialect, a, n) ==
    IF ~IdentifierOk(a.table) THEN Raise("ValueError", "Invalid table name", n)
    ELSE
    Bind(IF ~a.conditions.none /\ a.conditions.items # <<>>
         THEN BuildWhere(dialect, a.conditions, a.expression, n) ELSE Return(<<>>, <<>>, n), LAMBDA w :
    IF w.exc # "" THEN w
    ELSE IF a.group_by # <<>> /\ ~(\A i \in 1..Len(a.group_by) : IdentifierOk(a.group_by[i]))
    THEN Raise("ValueError", "Invalid group_by columns", w.ids)
    ELSE
    Bind(IF a.group_by # <<>> /\ ~a.having.none /\ a.having.items # <<>>
         THEN BuildWhere(dialect, a.having, a.having_expr, w.ids) ELSE Return(<<>>, <<>>, w.ids), LAMBDA h :
    IF h.exc # "" THEN h
    ELSE IF a.order_by # <<>> /\ ~OrderByOk(a.order_by) THEN Raise("ValueError", "Invalid order_by", h.ids)
    ELSE
    Return(<<"S","E","L","E","C","T"," ">>
           \o (IF a.columns.isList THEN Join(QuoteAll(dialect, a.columns.names), <<","," ">>) ELSE a.columns.raw)
           \o <<" ","F","R","O","M"," ">> \o Quote(dialect, a.table)
           \o (IF w.sql # <<>> THEN <<" ","W","H","E","R","E"," ">> \o w.sql ELSE <<>>)
           \o (IF a.group_by # <<>>
               THEN <<" ","G","R","O","U","P"," ","B","Y"," ">> \o Join(QuoteAll(dialect, a.group_by), <<","," ">>)
                    \o (IF h.sql # <<>> THEN <<" ","H","A","V","I","N","G"," ">> \o h.sql ELSE <<>>)
               ELSE <<>>)
           \o (IF a.order_by # <<>>
               THEN <<" ","O","R","D","E","R"," ","B","Y"," ">>
                    \o Join([i \in 1..Len(a.order_by) |->
                               Quote(dialect, a.order_by[i].field) \o <<" ">> \o Upper(a.order_by[i].direction)],
                            <<","," ">>)
               ELSE <<>>)
           \o Pagination(dialect, a.limit, a.offset),
           DictUpdate(IF w.sql # <<>> THEN w.params ELSE <<>>, IF h.sql # <<>> THEN h.params ELSE <<>>),
           h.ids)))

\* row.get(k)
RowGet(row, k) == IF HasKey(row, k) THEN Get(row, k) ELSE NoneVal

\* parameter names that leave the row out: every row is given the names of row 0
RowNamesOfFirstRow(keys, idx) == [j \in 1..Len(keys) |-> keys[j] \o <<"_">> \o IntToText(0)]

\* the placeholders and parameters of one row of insert_bulk: {k}_{idx}
RowNames(keys, idx) == [j \in 1..Len(keys) |-> keys[j] \o <<"_">> \o IntToText(idx)]

RECURSIVE BulkParams(_, _, _, _)
\* params after rows[i..]: params[f'{k}_{idx}'] = row.get(k), idx = i - 1
BulkParams(rows, keys, i, params) ==
    IF i > Len(rows) THEN params
    ELSE BulkParams(rows, keys, i + 1,
             DictUpdate(params, [j \in 1..Len(keys) |->
                 [k |-> RowNames(keys, i - 1)[j], v |-> RowGet(rows[i], keys[j])]]))

\* SQLBuilder.insert_bulk
InsertBulk(dialect, table, rows, n) ==
    IF rows = <<>> THEN Raise("ValueError", "No rows provided for insert", n)
    ELSE IF ~IdentifierOk(table) THEN Raise("ValueError", "Invalid table name", n)
    ELSE
    LET keys == DictKeys(rows[1]) IN
    IF ~(\A j \in 1..Len(keys) : IdentifierOk(keys[j])) THEN Raise("ValueError", "Invalid column names", n)
    ELSE
    LET ph == placeholders(dialect)
        params == BulkParams(rows, keys, 1, <<>>)
        phs(idx) == Join([j \in 1..Len(keys) |-> ph \o RowNames(keys, idx)[j]], <<","," ">>)
        colList == Join(QuoteAll(dialect, keys), <<","," ">>)
        into_lines == [i \in 1..Len(rows) |->
                          <<"I","N","T","O"," ">> \o Quote(dialect, table) \o <<" ","(">> \o colList \o <<")"," ","V","A","L","U","E","S"," ","(">>
                          \o phs(i - 1) \o <<")">>]
        ph_rows == [i \in 1..Len(rows) |-> <<"(">> \o phs(i - 1) \o <<")">>]
        sql == IF dialect \in {S_oracle, S_mssql}
               THEN IF dialect = S_oracle
                    THEN <<"I","N","S","E","R","T"," ","A","L","L","\n">> \o Join(into_lines, <<" ">>) \o <<"\n","S","E","L","E","C","T"," ","*"," ","F","R","O","M"," ","D","U","A","L">>
                    ELSE <<"I","N","S","E","R","T"," ","I","N","T","O">>
               ELSE <<"I","N","S","E","R","T"," ","I","N","T","O"," ">> \o Quote(dialect, table) \o <<" ","(">> \o colList \o <<")"," ","V","A","L","U","E","S"," ">>
                    \o Join(ph_rows, <<","," ">>)
    IN IF dialect \in {S_mysql, S_sqlite} THEN ReturnList(sql, DictValues(params), n)
       ELSE Return(sql, params, n)

\* SQLBuilder.insert
Insert(dialect, table, data, n) == InsertBulk(dialect, table, <<data>>, n)

\* the outcome shared by update and delete once sql and params are built
Finish(dialect, sql, params, n) ==
    IF dialect \in {S_mysql, S_sqlite} THEN ReturnList(sql, DictValues(params), n)
    ELSE Return(sql, params, n)

\* update and delete without the refusal: a missing WHERE always goes through
WherePartUnguarded(dialect, sql, params, conditions, expression, allow_full, what, n) ==
    IF ~conditions.none /\ conditions.items # <<>>
    THEN Bind(BuildWhere(dialect, conditions, expression, n), LAMBDA w :
         IF w.exc # "" THEN w
         ELSE IF w.sql # <<>>
         THEN Finish(dialect, sql \o <<" ","W","H","E","R","E"," ">> \o w.sql, DictUpdate(params, w.params), w.ids)
         ELSE Finish(dialect, sql, params, w.ids))
    ELSE Finish(dialect, sql, params, n)

\* the WHERE part of update and delete, or the refusal
WherePart(dialect, sql, params, conditions, expression, allow_full, what, n) ==
    IF ~conditions.none /\ conditions.items # <<>>
    THEN Bind(BuildWhere(dialect, conditions, expression, n), LAMBDA w :
         IF w.exc # "" THEN w
         ELSE IF w.sql # <<>>
         THEN Finish(dialect, sql \o <<" ","W","H","E","R","E"," ">> \o w.sql, DictUpdate(params, w.params), w.ids)
         ELSE Finish(dialect, sql, params, w.ids))
    ELSE IF ~allow_full THEN Raise("ValueError", what, n)
    ELSE Finish(dialect, sql, params, n)

\* SQLBuilder.update; data: a dict
Update(dialect, table, data, conditions, expression, allow_full, n) ==
    IF ~IdentifierOk(table) THEN Raise("ValueError", "Invalid table name", n)
    ELSE IF ~(\A i \in 1..Len(data) : IdentifierOk(data[i].k)) THEN Raise("ValueError", "Invalid column name", n)
    ELSE
    LET ph == placeholders(dialect)
        sets == [i \in 1..Len(data) |-> Quote(dialect, data[i].k) \o <<" ","="," ">> \o ph \o <<"s","e","t","_">> \o data[i].k]
        params == DictUpdate(<<>>, [i \in 1..Len(data) |-> [k |-> <<"s","e","t","_">> \o data[i].k, v |-> data[i].v]])
        sql == <<"U","P","D","A","T","E"," ">> \o Quote(dialect, table) \o <<" ","S","E","T"," ">> \o Join(sets, <<","," ">>)
    IN WherePart(dialect, sql, params, conditions, expression, allow_full, "UPDATE without WHERE refused", n)

\* SQLBuilder.delete
Delete(dialect, table, conditions, expression, allow_full, n) ==
    IF ~IdentifierOk(table) THEN Raise("ValueError", "Invalid table name", n)
    ELSE WherePart(dialect, <<"D","E","L","E","T","E"," ","F","R","O","M"," ">> \o Quote(dialect, table), <<>>, conditions, expression,
                   allow_full, "DELETE without WHERE refused", n)

\* SQLBuilder.upsert; data: a dict, pk: a list of names
Upsert(dialect, table, data, pk, n) ==
    IF ~IdentifierOk(table) THEN Raise("ValueError", "Invalid table name", n)
    ELSE
    LET cols == DictKeys(data) IN
    IF ~(\A i \in 1..Len(cols \o pk) : IdentifierOk((cols \o pk)[i])) THEN Raise("ValueError", "Invalid column names", n)
    ELSE
    LET ph == placeholders(dialect)
        Q(c) == Quote(dialect, c)
        vals == Join([i \in 1..Len(cols) |-> ph \o cols[i]], <<","," ">>)
        non_pk == SelectSeq(cols, LAMBDA c : c \notin Range(pk))
        colList == Join(QuoteAll(dialect, cols), <<","," ">>)
        pkList == Join(QuoteAll(dialect, pk), <<","," ">>)
        insertHead == <<"I","N","S","E","R","T"," ","I","N","T","O"," ">> \o Q(table) \o <<" ","(">> \o colList \o <<")"," ","V","A","L","U","E","S"," ","(">> \o vals \o <<")">>
        updates(mid, post) == Join([i \in 1..Len(non_pk) |-> Q(non_pk[i]) \o mid \o Q(non_pk[i]) \o post], <<","," ">>)
        join_cond == Join([i \in 1..Len(pk) |-> <<"T",".">> \o Q(pk[i]) \o <<"=","S",".">> \o Q(pk[i])], <<" ","A","N","D"," ">>)
        upd == Join([i \in 1..Len(non_pk) |-> <<"T",".">> \o Q(non_pk[i]) \o <<"=","S",".">> \o Q(non_pk[i])], <<","," ">>)
        sCols == Join([i \in 1..Len(cols) |-> <<"S",".">> \o Q(cols[i])], <<","," ">>)
    IN
    IF dialect = S_postgres
    THEN Return(insertHead \o <<" ","O","N"," ","C","O","N","F","L","I","C","T"," ","(">> \o pkList \o <<")"," ","D","O"," ","U","P","D","A","T","E"," ","S","E","T"," ">>
                \o updates(<<"=","E","X","C","L","U","D","E","D",".">>, <<>>), data, n)
    ELSE IF dialect = S_sqlite
    THEN ReturnList(insertHead \o <<" ","O","N"," ","C","O","N","F","L","I","C","T"," ","(">> \o pkList \o <<")"," ","D","O"," ","U","P","D","A","T","E"," ","S","E","T"," ">>
                    \o updates(<<"=","e","x","c","l","u","d","e","d",".">>, <<>>), DictValues(data), n)
    ELSE IF dialect = S_mysql
    THEN ReturnList(insertHead \o <<" ","O","N"," ","D","U","P","L","I","C","A","T","E"," ","K","E","Y"," ","U","P","D","A","T","E"," ">> \o updates(<<"=","V","A","L","U","E","S","(">>, <<")">>),
                    DictValues(data), n)
    ELSE IF dialect \in {S_mssql, S_oracle}
    THEN Return(<<"M","E","R","G","E"," ","I","N","T","O"," ">> \o Q(table) \o <<" ","T"," ","U","S","I","N","G"," ","(","V","A","L","U","E","S"," ","(">> \o vals \o <<")",")"," ","S"," ","(">> \o colList
                \o <<")"," ","O","N"," ","(">> \o join_cond \o <<")"," ","W","H","E","N"," ","M","A","T","C","H","E","D"," ","T","H","E","N"," ","U","P","D","A","T","E"," ","S","E","T"," ">> \o upd
                \o <<" ","W","H","E","N"," ","N","O","T"," ","M","A","T","C","H","E","D"," ","T","H","E","N"," ","I","N","S","E","R","T"," ","(">> \o colList \o <<")"," ","V","A","L","U","E","S"," ","(">> \o sCols \o <<")">>,
                data, n)
    ELSE Raise("ValueError", "Upsert not supported for dialect", n)

-----------------------------------------------------------------------------
(* create_table *)

\* dtype_map.get(dialect, {}).get(dtype, "TEXT"), for the dtypes int64 and object
dtype_map(dialect, dtype) ==
    IF dtype = <<"i","n","t","6","4">>
    THEN IF dialect = S_oracle THEN <<"N","U","M","B","E","R">>
         ELSE IF dialect \in {S_mssql, S_mysql, S_postgresql} THEN <<"B","I","G","I","N","T">>
         ELSE IF dialect = S_sqlite THEN <<"I","N","T","E","G","E","R">>
         ELSE <<"T","E","X","T">>
    ELSE IF dtype = <<"o","b","j","e","c","t">>
    THEN IF dialect = S_oracle THEN <<"V","A","R","C","H","A","R","2","(","2","5","5",")">>
         ELSE IF dialect \in {S_mssql, S_mysql, S_postgresql} THEN <<"V","A","R","C","H","A","R","(","2","5","5",")">>
         ELSE <<"T","E","X","T">>
    ELSE <<"T","E","X","T">>

\* the foreign-key constraints, or the first invalid one; f: [column, ref_table, ref_column, on_delete, on_update]
ForeignKeyOk(f) == IdentifierOk(f.column) /\ IdentifierOk(f.ref_table) /\ IdentifierOk(f.ref_column)
ForeignKeySql(dialect, f) ==
    <<"F","O","R","E","I","G","N"," ","K","E","Y"," ","(">> \o Quote(dialect, f.column) \o <<")"," ","R","E","F","E","R","E","N","C","E","S"," ">> \o Quote(dialect, f.ref_table)
    \o <<" ","(">> \o Quote(dialect, f.ref_column) \o <<")">>
    \o (IF f.on_delete # <<>> THEN <<" ","O","N"," ","D","E","L","E","T","E"," ">> \o Upper(f.on_delete) ELSE <<>>)
    \o (IF f.on_update # <<>> THEN <<" ","O","N"," ","U","P","D","A","T","E"," ">> \o Upper(f.on_update) ELSE <<>>)

\* create_table(name, source, pk, fk, dialect, if_not_exists)
\* source: [kind |-> "frame" | "dict" | "other", cols |-> sequence of [k |-> column, v |-> dtype or SQL type text]]
CreateTable(name, source, pk, fk, dialect, if_not_exists, n) ==
    IF ~IdentifierOk(name) THEN Raise("ValueError", "Invalid table name", n)
    ELSE IF source.kind = "other" THEN Raise("TypeError", "Source must be DataFrame or dict", n)
    ELSE IF pk # <<>> /\ ~(\A i \in 1..Len(pk) : IdentifierOk(pk[i]))
    THEN Raise("ValueError", "Invalid primary key columns", n)
    ELSE IF \E i \in 1..Len(fk) : ~ForeignKeyOk(fk[i]) THEN Raise("ValueError", "Invalid foreign key", n)
    ELSE
    LET cols == [i \in 1..Len(source.cols) |->
                    Quote(dialect, source.cols[i].k) \o <<" ">>
                    \o (IF source.kind = "frame" THEN dtype_map(dialect, Lower(source.cols[i].v))
                        ELSE source.cols[i].v)]
        pkCons == IF pk # <<>> THEN << <<"P","R","I","M","A","R","Y"," ","K","E","Y"," ","(">> \o Join(QuoteAll(dialect, pk), <<","," ">>) \o <<")">> >>
                  ELSE <<>>
        fkCons == [i \in 1..Len(fk) |-> ForeignKeySql(dialect, fk[i])]
        ine == IF if_not_exists /\ dialect # S_oracle THEN <<"I","F"," ","N","O","T"," ","E","X","I","S","T","S"," ">> ELSE <<>>
    IN Return(<<"C","R","E","A","T","E"," ","T","A","B","L","E"," ">> \o ine \o Quote(dialect, name) \o <<" ","(","\n"," "," ">>
              \o Join(cols \o pkCons \o fkCons, <<",","\n"," "," ">>) \o <<"\n",")">>, <<>>, n)

-----------------------------------------------------------------------------
(* adapt_sql *)

\* what replaces a marker :name for each style
Marker(style, name) ==
    IF style = "at" THEN <<"@">> \o name
    ELSE IF style = "pyformat" THEN <<"%","(">> \o name \o <<")","s">>
    ELSE <<"?">>

\* re.sub(r':(\w+)', repl, sql): a marker starts at every colon followed by a word character
\* (a colon is no word character, so no marker starts inside another marker's name)
SubMarkers(sql, style) ==
    LET starts == Ascending({i \in 1..(Len(sql) - 1) : sql[i] = ":" /\ IsWord(sql[i + 1])}) IN
    Splice(sql, 1, [k \in 1..Len(starts) |->
        LET j == RunEnd(sql, starts[k] + 1, WordChars) IN
        [from |-> starts[k], to |-> j, by |-> Marker(style, SubSeq(sql, starts[k] + 1, j))]])

\* a match of OFFSET (\d+) ROWS(?: FETCH NEXT (\d+) ROWS ONLY)? at i:
\* [found, off, lim (empty: group 2 did not take part), end]
PageMatch(sql, i) ==
    LET none == [found |-> FALSE, off |-> <<>>, lim |-> <<>>, end |-> i]
        d1 == i + 7
        e1 == RunEnd(sql, d1, AsciiDigits)
    IN
    IF ~(StartsAtI(sql, <<"O","F","F","S","E","T"," ">>, i) /\ e1 >= d1 /\ StartsAtI(sql, <<" ","R","O","W","S">>, e1 + 1)) THEN none
    ELSE
    LET r1 == e1 + 5
        d2 == r1 + 13
        e2 == RunEnd(sql, d2, AsciiDigits)
    IN
    IF StartsAtI(sql, <<" ","F","E","T","C","H"," ","N","E","X","T"," ">>, r1 + 1) /\ e2 >= d2 /\ StartsAtI(sql, <<" ","R","O","W","S"," ","O","N","L","Y">>, e2 + 1)
    THEN [found |-> TRUE, off |-> SubSeq(sql, d1, e1), lim |-> SubSeq(sql, d2, e2), end |-> e2 + 10]
    ELSE [found |-> TRUE, off |-> SubSeq(sql, d1, e1), lim |-> <<>>, end |-> r1]

\* _patch of the postgres branch
PatchPostgres(off, lim) ==
    (IF lim # <<>> THEN <<" ","L","I","M","I","T"," ">> \o lim ELSE <<>>) \o (IF off # <<>> THEN <<" ","O","F","F","S","E","T"," ">> \o off ELSE <<>>)

\* _patch_mysql
PatchMysql(off, lim) ==
    IF lim # <<>> THEN <<" ","L","I","M","I","T"," ">> \o lim \o <<" ","O","F","F","S","E","T"," ">> \o off ELSE <<" ","O","F","F","S","E","T"," ">> \o off

\* re.sub of the pagination pattern; mysql tells which _patch replaces
\* (a match begins with OFFSET, which occurs nowhere inside a match, so matches never overlap)
SubPagination(sql, mysql) ==
    LET starts == Ascending({i \in 1..Len(sql) : PageMatch(sql, i).found}) IN
    Splice(sql, 1, [k \in 1..Len(starts) |->
        Bind(PageMatch(sql, starts[k]), LAMBDA m :
        [from |-> starts[k], to |-> m.end,
         by |-> IF mysql THEN PatchMysql(m.off, m.lim) ELSE PatchPostgres(m.off, m.lim)])])

\* adapt_sql comparing the dialect name as written, without lower()
AdaptSqlCaseSensitive(sql, ptype, params, dialect, n) ==
    IF dialect = S_oracle THEN [Return(sql, params, n) EXCEPT !.ptype = ptype]
    ELSE IF dialect = S_mssql THEN [Return(SubMarkers(sql, "at"), params, n) EXCEPT !.ptype = ptype]
    ELSE IF dialect \in {S_postgres, S_postgresql}
    THEN [Return(SubPagination(SubMarkers(sql, "pyformat"), FALSE), params, n) EXCEPT !.ptype = ptype]
    ELSE IF dialect \in {S_mysql, S_sqlite}
    THEN IF ptype = "list" THEN Raise("AttributeError", "list object has no attribute values", n)
         ELSE ReturnList(SubPagination(SubMarkers(sql, "qmark"), TRUE), DictValues(params), n)
    ELSE Raise("ValueError", "Unknown dialect", n)

\* adapt_sql(sql, params, dialect); ptype tells whether params is a dict or a list
AdaptSql(sql, ptype, params, dialect, n) ==
    LET d == Lower(dialect) IN
    IF d = S_oracle THEN [Return(sql, params, n) EXCEPT !.ptype = ptype]
    ELSE IF d = S_mssql THEN [Return(SubMarkers(sql, "at"), params, n) EXCEPT !.ptype = ptype]
    ELSE IF d \in {S_postgres, S_postgresql}
    THEN [Return(SubPagination(SubMarkers(sql, "pyformat"), FALSE), params, n) EXCEPT !.ptype = ptype]
    ELSE IF d \in {S_mysql, S_sqlite}
    THEN IF ptype = "list" THEN Raise("AttributeError", "list object has no attribute values", n)
         ELSE ReturnList(SubPagination(SubMarkers(sql, "qmark"), TRUE), DictValues(params), n)
    ELSE Raise("ValueError", "Unknown dialect", n)

\* adapt_sql applied to what a builder returned (the exception propagates)
Adapted(r, dialect) == IF r.exc # "" THEN r ELSE AdaptSql(r.sql, r.ptype, r.params, dialect, r.ids)

-----------------------------------------------------------------------------
(* json_handler: payloads are records; keys is the set of keys present     *)

\* payload.get(key): the field when the key is present, else the default
PGet(payload, key, default) == IF key \in payload.keys THEN payload[key] ELSE default

Absent == [none |-> TRUE, items |-> <<>>]
NoExpression == [none |-> TRUE, text |-> <<>>]
NoInt == [none |-> TRUE, n |-> 0]
Star == [isList |-> FALSE, names |-> <<>>, raw |-> <<"*">>]

\* the arguments json_select passes to builder.select
SelectArgsOf(payload) ==
    [table |-> payload.table,
     columns |-> PGet(payload, "fields", Star),
     conditions |-> PGet(payload, "condition", Absent),
     expression |-> PGet(payload, "expression", NoExpression),
     order_by |-> PGet(payload, "orderby", <<>>),
     limit |-> PGet(payload, "limit", NoInt),
     offset |-> PGet(payload, "start", NoInt),
     group_by |-> PGet(payload, "groupby", <<>>),
     having |-> PGet(payload, "having", Absent),
     having_expr |-> PGet(payload, "having_expression", NoExpression)]

\* json_select(payload, dialect)
JsonSelect(payload, dialect, n) ==
    IF "table" \notin payload.keys THEN Raise("ValueError", "Missing required fields", n)
    ELSE Adapted(Select(Lower(dialect), SelectArgsOf(payload), n), dialect)

RECURSIVE InsertEach(_, _, _, _)
\* the list json_insert builds row by row, builder.insert then adapt_sql for each r in rows:
\* the last result, or the first exception
InsertEach(rows, dialect, i, n) ==
    Bind(Adapted(Insert(Lower(dialect), rows[i].table, rows[i].insertValues, n), dialect), LAMBDA r :
    IF r.exc # "" \/ i = Len(rows) THEN r ELSE InsertEach(rows, dialect, i + 1, n))

\* json_insert(rows, dialect, multi_row): the (last) adapted statement
JsonInsert(rows, dialect, multi_row, n) ==
    IF rows = <<>> THEN Raise("ValueError", "No rows provided for insert", n)
    ELSE IF multi_row /\ Cardinality({rows[i].table : i \in 1..Len(rows)}) = 1
    THEN Adapted(InsertBulk(Lower(dialect), rows[1].table, [i \in 1..Len(rows) |-> rows[i].insertValues], n), dialect)
    ELSE InsertEach(rows, dialect, 1, n)

\* json_update(payload, dialect)
JsonUpdate(payload, dialect, n) ==
    IF ~({"table", "updateValues"} \subseteq payload.keys) THEN Raise("ValueError", "Missing required fields", n)
    ELSE IF "limit" \in payload.keys THEN Raise("NotImplementedError", "LIMIT in UPDATE not supported", n)
    ELSE Adapted(Update(Lower(dialect), payload.table, payload.updateValues,
                        PGet(payload, "condition", Absent), PGet(payload, "expression", NoExpression),
                        FALSE, n),
                 dialect)

\* json_delete(payload, dialect)
JsonDelete(payload, dialect, n) ==
    IF "table" \notin payload.keys THEN Raise("ValueError", "Missing required fields", n)
    ELSE Adapted(Delete(Lower(dialect), payload.table,
                        PGet(payload, "condition", Absent), PGet(payload, "expression", NoExpression),
                        FALSE, n),
                 dialect)

-----------------------------------------------------------------------------
(* sqlbbw.mappings.patterns and sqlbbw.corrector.cast_df.  A pattern is     *)
(* matched as re.match does, by the set of positions a part of it can end   *)
(* at: positions are 1..Len(s)+1, the position of the next unread character.*)

IsSpace(c) == c \in SpaceChars
\* [0-9a-fA-F]
IsHex(c) == c \in AsciiDigits \cup {"a", "b", "c", "d", "e", "f", "A", "B", "C", "D", "E", "F"}
\* [a-zA-Z0-9._%+-]
IsEmailLocal(c) == c \in AsciiLetters \cup AsciiDigits \cup {".", "_", "%", "+", "-"}
\* [a-zA-Z0-9.-]
IsEmailDomain(c) == c \in AsciiLetters \cup AsciiDigits \cup {".", "-"}
\* [a-zA-Z]
IsAsciiLetter(c) == c \in AsciiLetters
\* [^\s]
IsNotSpace(c) == c \notin SpaceChars
\* . without re.DOTALL
IsNotNewline(c) == c # "\n"

\* C{lo,hi} read from a position of P; hi = -1 stands for no upper limit
Rep(s, P, C(_), lo, hi) ==
    {q \in 1..(Len(s) + 1) :
        \E p \in P : /\ q - p >= lo
                     /\ hi = -1 \/ q - p <= hi
                     /\ \A i \in p..(q - 1) : C(s[i])}

\* the literal w read from a position of P
Lit(s, P, w) == {p + Len(w) : p \in {x \in P : StartsAt(s, w, x)}}

\* one of the literals ws, ignoring case
AnyLitI(s, P, ws) == UNION {{p + Len(w) : p \in {x \in P : StartsAtI(s, w, x)}} : w \in ws}

\* one character of the set cs
OneOf(s, P, cs) == {p + 1 : p \in {x \in P : x <= Len(s) /\ s[x] \in cs}}

\* ^ ... $ on a value without surrounding whitespace: the pattern ends where the text ends
AtEnd(s, P) == (Len(s) + 1) \in P

\* \d{a}<sep>\d{b}<sep>\d{c}
ThreeNumbers(s, P, a, sep1, b, sep2, c) ==
    Rep(s, Lit(s, Rep(s, Lit(s, Rep(s, P, IsDigit, a, a), sep1), IsDigit, b, b), sep2), IsDigit, c, c)

\* (\.\d+)?
OptFraction(s, P) == P \cup Rep(s, Lit(s, P, <<".">>), IsDigit, 1, -1)

\* -?
OptMinus(s, P) == P \cup Lit(s, P, <<"-">>)

\* patterns['epochtime']
EpochPattern(s) ==
    \/ AtEnd(s, OptFraction(s, Rep(s, {1}, IsDigit, 10, 10)))
    \/ AtEnd(s, Rep(s, {1}, IsDigit, 13, 13))
    \/ AtEnd(s, Rep(s, {1}, IsDigit, 16, 16))

\* patterns['date']
DatePattern(s) ==
    \/ AtEnd(s, ThreeNumbers(s, {1}, 4, <<"-">>, 2, <<"-">>, 2))
    \/ AtEnd(s, ThreeNumbers(s, {1}, 2, <<"/">>, 2, <<"/">>, 4))
    \/ AtEnd(s, ThreeNumbers(s, {1}, 2, <<"-">>, 2, <<"-">>, 4))
    \/ AtEnd(s, Rep(s, Lit(s, Rep(s, Lit(s, Rep(s, {1}, IsDigit, 1, 2), <<"-">>), IsWord, 3, 3), <<"-">>),
                    IsDigit, 4, 4))
    \/ Bind(Rep(s, Rep(s, Rep(s, {1}, IsWord, 3, 3), IsSpace, 1, -1), IsDigit, 1, 2), LAMBDA day :
            AtEnd(s, Rep(s, Rep(s, day \cup Lit(s, day, <<",">>), IsSpace, 1, -1), IsDigit, 4, 4)))

\* patterns['time']
TimePattern(s) ==
    \/ Bind(Rep(s, Lit(s, Rep(s, {1}, IsDigit, 1, 2), <<":">>), IsDigit, 2, 2), LAMBDA hm :
       Bind(hm \cup Rep(s, Lit(s, hm, <<":">>), IsDigit, 2, 2), LAMBDA hms :
            AtEnd(s, hms \cup Lit(s, OneOf(s, Rep(s, hms, IsSpace, 0, -1), {"A", "P"}), <<"M">>))))
    \/ AtEnd(s, Rep(s, Lit(s, ThreeNumbers(s, {1}, 2, <<":">>, 2, <<":">>, 2), <<".">>), IsDigit, 3, 3))

\* patterns['timestamp']
TimestampPattern(s) ==
    Bind(ThreeNumbers(s, {1}, 4, <<"-">>, 2, <<"-">>, 2), LAMBDA day :
         \/ AtEnd(s, OptFraction(s, ThreeNumbers(s, Rep(s, day, IsSpace, 1, -1), 2, <<":">>, 2, <<":">>, 2)))
         \/ Bind(OptFraction(s, ThreeNumbers(s, Lit(s, day, <<"T">>), 2, <<":">>, 2, <<":">>, 2)), LAMBDA t :
                 AtEnd(s, t \cup Lit(s, t, <<"Z">>))))

\* patterns['integer']
IntegerPattern(s) == AtEnd(s, Rep(s, OptMinus(s, {1}), IsDigit, 1, -1))

\* patterns['float']
FloatPattern(s) ==
    \/ AtEnd(s, Rep(s, Lit(s, Rep(s, OptMinus(s, {1}), IsDigit, 0, -1), <<".">>), IsDigit, 1, -1))
    \/ Bind(Rep(s, OptMinus(s, {1}), IsDigit, 1, -1), LAMBDA int :
       Bind(Rep(s, int \cup Lit(s, int, <<".">>), IsDigit, 0, -1), LAMBDA mant :
       Bind(OneOf(s, mant, {"e", "E"}), LAMBDA e :
            AtEnd(s, Rep(s, e \cup OneOf(s, e, {"+", "-"}), IsDigit, 1, -1)))))

\* patterns['boolean']
BooleanPattern(s) ==
    AtEnd(s, AnyLitI(s, {1}, { <<"t","r","u","e">>, <<"f","a","l","s","e">>, <<"y","e","s">>, <<"n","o">>, <<"y">>, <<"n">>, <<"0">>, <<"1">> }))

\* patterns['uuid']
UuidPattern(s) ==
    AtEnd(s, Rep(s, Lit(s, Rep(s, Lit(s, Rep(s, Lit(s, Rep(s, Lit(s, Rep(s, {1}, IsHex, 8, 8), <<"-">>),
             IsHex, 4, 4), <<"-">>), IsHex, 4, 4), <<"-">>), IsHex, 4, 4), <<"-">>), IsHex, 12, 12))

\* patterns['email']
EmailPattern(s) ==
    AtEnd(s, Rep(s, Lit(s, Rep(s, Lit(s, Rep(s, {1}, IsEmailLocal, 1, -1), <<"@">>), IsEmailDomain, 1, -1),
                        <<".">>), IsAsciiLetter, 2, -1))

\* patterns['url']
UrlPattern(s) ==
    Bind(Lit(s, {1}, <<"h","t","t","p">>), LAMBDA http :
         AtEnd(s, Rep(s, Lit(s, http \cup Lit(s, http, <<"s">>), <<":","/","/">>), IsNotSpace, 1, -1)))

\* patterns['json']
JsonPattern(s) ==
    \/ AtEnd(s, Lit(s, Rep(s, Lit(s, {1}, <<"{">>), IsNotNewline, 0, -1), <<"}">>))
    \/ AtEnd(s, Lit(s, Rep(s, Lit(s, {1}, <<"[">>), IsNotNewline, 0, -1), <<"]">>))

\* a pattern order that tries the boolean words before the integer
PatternOrderBooleanFirst ==
    <<"epochtime", "date", "time", "timestamp", "boolean", "integer", "float", "uuid", "email", "url", "json">>

\* the keys of patterns, in the order of the dict
PatternOrder ==
    <<"epochtime", "date", "time", "timestamp", "integer", "float", "boolean", "uuid", "email", "url", "json">>

\* any(re.match(regex, val) for regex in patterns[dtype])
MatchesType(dtype, val) ==
    CASE dtype = "epochtime" -> EpochPattern(val)
      [] dtype = "date" -> DatePattern(val)
      [] dtype = "time" -> TimePattern(val)
      [] dtype = "timestamp" -> TimestampPattern(val)
      [] dtype = "integer" -> IntegerPattern(val)
      [] dtype = "float" -> FloatPattern(val)
      [] dtype = "boolean" -> BooleanPattern(val)
      [] dtype = "uuid" -> UuidPattern(val)
      [] dtype = "email" -> EmailPattern(val)
      [] dtype = "url" -> UrlPattern(val)
      [] dtype = "json" -> JsonPattern(val)

\* df[col].dropna().astype(str).str.strip()
NonNullTrimmed(values) ==
    Bind(SelectSeq(values, LAMBDA v : v.t # "none"), LAMBDA kept :
         [i \in 1..Len(kept) |-> Strip(kept[i].s)])

RECURSIVE MatchedType(_, _)
\* the loop over patterns.items() from the k-th key on: the first type every value of the
\* sample matches, "" when there is none
MatchedType(sample, k) ==
    IF k > Len(PatternOrder) THEN ""
    ELSE IF \A i \in 1..Len(sample) : MatchesType(PatternOrder[k], sample[i]) THEN PatternOrder[k]
    ELSE MatchedType(sample, k + 1)

\* a number written in digits with an optional fraction exceeds 10^k
ExceedsPowerOfTen(text, k) ==
    Bind(IF \E i \in 1..Len(text) : text[i] = "." THEN IndexOf(text, ".") ELSE Len(text) + 1, LAMBDA dot :
    Bind(DropLeadingZeros(SubSeq(text, 1, dot - 1)), LAMBDA int :
         \/ Len(int) > k + 1
         \/ /\ Len(int) = k + 1
            /\ \/ int[1] # "1"
               \/ \E i \in 2..Len(int) : int[i] # "0"
               \/ \E i \in (dot + 1)..Len(text) : text[i] # "0"))

\* s.max() > 1e12, s.max() > 1e15
MaxExceeds(sample, k) == \E i \in 1..Len(sample) : ExceedsPowerOfTen(sample[i], k)

\* the unit cast_df converts an epoch column with
EpochUnit(sample) ==
    IF MaxExceeds(sample, 12) THEN "ms"
    ELSE IF MaxExceeds(sample, 15) THEN "us"
    ELSE "s"

\* bool_map(x)
BoolMap(x) ==
    IF x.t = "none" THEN NoneVal
    ELSE IF Lower(x.s) \in { <<"t","r","u","e">>, <<"y","e","s">>, <<"y">>, <<"1">> } THEN BoolVal(TRUE)
    ELSE IF Lower(x.s) \in { <<"f","a","l","s","e">>, <<"n","o">>, <<"n">>, <<"0">> } THEN BoolVal(FALSE)
    ELSE NoneVal

\* a value pandas has converted to the dtype: the text it was read from, under its new type
Converted(x, t) == IF x.t = "none" THEN NoneVal ELSE [t |-> t, s |-> x.s]

\* a column of a DataFrame
Column(dtype, values) == [dtype |-> dtype, values |-> values, matched |-> "", unit |-> ""]

\* the branches of cast_df for a matched type
CastTo(col, matched, sample) ==
    IF matched \in {"date", "timestamp", "time"}
    THEN [dtype |-> "datetime64[ns]", matched |-> matched, unit |-> "",
          values |-> [i \in 1..Len(col.values) |-> Converted(col.values[i], "datetime")]]
    ELSE IF matched = "epochtime"
    THEN [dtype |-> "datetime64[ns]", matched |-> matched, unit |-> EpochUnit(sample),
          values |-> [i \in 1..Len(col.values) |-> Converted(col.values[i], "datetime")]]
    ELSE IF matched = "integer"
    THEN [dtype |-> "Int64", matched |-> matched, unit |-> "",
          values |-> [i \in 1..Len(col.values) |-> Converted(col.values[i], "int")]]
    ELSE IF matched = "float"
    THEN [dtype |-> "float64", matched |-> matched, unit |-> "",
          values |-> [i \in 1..Len(col.values) |-> Converted(col.values[i], "float")]]
    ELSE IF matched = "boolean"
    THEN [dtype |-> "boolean", matched |-> matched, unit |-> "",
          values |-> [i \in 1..Len(col.values) |-> BoolMap(col.values[i])]]
    ELSE [dtype |-> "string", matched |-> matched, unit |-> "",
          values |-> [i \in 1..Len(col.values) |-> Converted(col.values[i], "str")]]

\* the body of the loop of cast_df for one column
CastColumn(col) ==
    IF col.dtype \in {"int64", "float64", "bool", "datetime64[ns]"} THEN col
    ELSE Bind(NonNullTrimmed(col.values), LAMBDA sample :
         IF sample = <<>> THEN col
         ELSE Bind(MatchedType(sample, 1), LAMBDA matched :
              IF matched = "" THEN col ELSE CastTo(col, matched, sample)))

\* cast_df(df), df a sequence of columns
CastDf(df) == [c \in 1..Len(df) |-> CastColumn(df[c])]

-----------------------------------------------------------------------------
(* sqlbbw.mappings (dtype_map, coercers) and sqlbbw.corrector.DataCorrector. *)
(* An SQL type is a text, a pandas dtype a name.  pandas and the database   *)
(* are outside the program: whether a coercer raises on a value, what the  *)
(* inspector answers and whether a statement fails are inputs of the       *)
(* operators below.                                                        *)

\* a dict from its keys and its values
Mapping(keys, values) == [i \in 1..Len(keys) |-> [k |-> keys[i], v |-> values[i]]]

\* the keys every entry of dtype_map has, in the order they are written
DtypeKeys ==
    <<"object", "string", "category", "int64", "Int64", "float32", "float64", "bool",
      "datetime64[ns]", "timedelta[ns]", "int", "float", "str", "datetime", "timedelta">>

\* dtype_map[db]; the default VARCHAR length is 255
DtypeMap(d) ==
    CASE d = S_oracle ->
           Mapping(DtypeKeys, << <<"V","A","R","C","H","A","R","2","(","2","5","5",")">>, <<"V","A","R","C","H","A","R","2","(","2","5","5",")">>, <<"V","A","R","C","H","A","R","2","(","2","5","5",")">>, <<"N","U","M","B","E","R">>, <<"N","U","M","B","E","R">>,
                                 <<"B","I","N","A","R","Y","_","F","L","O","A","T">>, <<"B","I","N","A","R","Y","_","D","O","U","B","L","E">>, <<"N","U","M","B","E","R","(","1",",","0",")">>, <<"D","A","T","E">>,
                                 <<"I","N","T","E","R","V","A","L"," ","D","A","Y"," ","T","O"," ","S","E","C","O","N","D">>, <<"N","U","M","B","E","R">>, <<"B","I","N","A","R","Y","_","D","O","U","B","L","E">>, <<"V","A","R","C","H","A","R","2","(","2","5","5",")">>,
                                 <<"D","A","T","E">>, <<"I","N","T","E","R","V","A","L"," ","D","A","Y"," ","T","O"," ","S","E","C","O","N","D">> >>)
      [] d = S_mssql ->
           Mapping(DtypeKeys, << <<"V","A","R","C","H","A","R","(","2","5","5",")">>, <<"V","A","R","C","H","A","R","(","2","5","5",")">>, <<"V","A","R","C","H","A","R","(","2","5","5",")">>, <<"B","I","G","I","N","T">>, <<"B","I","G","I","N","T">>,
                                 <<"R","E","A","L">>, <<"F","L","O","A","T">>, <<"B","I","T">>, <<"D","A","T","E","T","I","M","E">>,
                                 <<"B","I","G","I","N","T">>, <<"B","I","G","I","N","T">>, <<"F","L","O","A","T">>, <<"V","A","R","C","H","A","R","(","2","5","5",")">>,
                                 <<"D","A","T","E","T","I","M","E">>, <<"B","I","G","I","N","T">> >>)
      [] d = S_mysql ->
           Mapping(DtypeKeys, << <<"V","A","R","C","H","A","R","(","2","5","5",")">>, <<"V","A","R","C","H","A","R","(","2","5","5",")">>, <<"V","A","R","C","H","A","R","(","2","5","5",")">>, <<"B","I","G","I","N","T">>, <<"B","I","G","I","N","T">>,
                                 <<"F","L","O","A","T">>, <<"D","O","U","B","L","E">>, <<"T","I","N","Y","I","N","T","(","1",")">>, <<"D","A","T","E","T","I","M","E">>,
                                 <<"B","I","G","I","N","T">>, <<"B","I","G","I","N","T">>, <<"D","O","U","B","L","E">>, <<"V","A","R","C","H","A","R","(","2","5","5",")">>,
                                 <<"D","A","T","E","T","I","M","E">>, <<"B","I","G","I","N","T">> >>)
      [] d = S_postgresql ->
           Mapping(DtypeKeys, << <<"V","A","R","C","H","A","R","(","2","5","5",")">>, <<"V","A","R","C","H","A","R","(","2","5","5",")">>, <<"V","A","R","C","H","A","R","(","2","5","5",")">>, <<"B","I","G","I","N","T">>, <<"B","I","G","I","N","T">>,
                                 <<"R","E","A","L">>, <<"D","O","U","B","L","E"," ","P","R","E","C","I","S","I","O","N">>, <<"B","O","O","L","E","A","N">>, <<"T","I","M","E","S","T","A","M","P">>,
                                 <<"I","N","T","E","R","V","A","L">>, <<"B","I","G","I","N","T">>, <<"D","O","U","B","L","E"," ","P","R","E","C","I","S","I","O","N">>, <<"V","A","R","C","H","A","R","(","2","5","5",")">>,
                                 <<"T","I","M","E","S","T","A","M","P">>, <<"I","N","T","E","R","V","A","L">> >>)
      [] d = S_sqlite ->
           Mapping(DtypeKeys, << <<"T","E","X","T">>, <<"T","E","X","T">>, <<"T","E","X","T">>, <<"I","N","T","E","G","E","R">>, <<"I","N","T","E","G","E","R">>,
                                 <<"R","E","A","L">>, <<"R","E","A","L">>, <<"I","N","T","E","G","E","R">>, <<"T","E","X","T">>,
                                 <<"I","N","T","E","G","E","R">>, <<"I","N","T","E","G","E","R">>, <<"R","E","A","L">>, <<"T","E","X","T">>,
                                 <<"T","E","X","T">>, <<"I","N","T","E","G","E","R">> >>)
      [] OTHER -> <<>>

\* coercers[db]: per base SQL type the dtype its coercer converts to ("str" for astype(str),
\* "tinyint" for the coercer that looks at the declared length)
Coercers(d) ==
    CASE d = S_oracle ->
           Mapping(<< <<"V","A","R","C","H","A","R","2">>, <<"N","U","M","B","E","R">>, <<"B","I","N","A","R","Y","_","F","L","O","A","T">>, <<"B","I","N","A","R","Y","_","D","O","U","B","L","E">>, <<"D","A","T","E">>, <<"I","N","T","E","R","V","A","L"," ","D","A","Y"," ","T","O"," ","S","E","C","O","N","D">> >>,
                   <<"str", "Int64", "float32", "float64", "datetime64[ns]", "timedelta64[ns]">>)
      [] d = S_mssql ->
           Mapping(<< <<"V","A","R","C","H","A","R">>, <<"B","I","G","I","N","T">>, <<"R","E","A","L">>, <<"F","L","O","A","T">>, <<"B","I","T">>, <<"D","A","T","E","T","I","M","E">> >>,
                   <<"str", "Int64", "float32", "float64", "bool", "datetime64[ns]">>)
      [] d = S_mysql ->
           Mapping(<< <<"V","A","R","C","H","A","R">>, <<"B","I","G","I","N","T">>, <<"F","L","O","A","T">>, <<"D","O","U","B","L","E">>, <<"T","I","N","Y","I","N","T">>, <<"D","A","T","E","T","I","M","E">> >>,
                   <<"str", "Int64", "float32", "float64", "tinyint", "datetime64[ns]">>)
      [] d = S_postgresql ->
           Mapping(<< <<"V","A","R","C","H","A","R">>, <<"T","E","X","T">>, <<"B","I","G","I","N","T">>, <<"R","E","A","L">>, <<"D","O","U","B","L","E"," ","P","R","E","C","I","S","I","O","N">>, <<"B","O","O","L","E","A","N">>, <<"T","I","M","E","S","T","A","M","P">>, <<"I","N","T","E","R","V","A","L">> >>,
                   <<"str", "str", "Int64", "float32", "float64", "bool", "datetime64[ns]", "timedelta64[ns]">>)
      [] d = S_sqlite ->
           Mapping(<< <<"T","E","X","T">>, <<"I","N","T","E","G","E","R">>, <<"R","E","A","L">> >>, <<"str", "Int64", "float64">>)
      [] OTHER -> <<>>

\* type_str.split('(')[0]
BaseType(type_str) ==
    Bind({i \in 1..Len(type_str) : type_str[i] = "("} \cup {Len(type_str) + 1}, LAMBDA at :
         SubSeq(type_str, 1, (CHOOSE i \in at : \A j \in at : i <= j) - 1))

\* coercers.get(self.db, {}).get(base_type): "" when there is none
CoercerOf(d, base_type) == IF HasKey(Coercers(d), base_type) THEN Get(Coercers(d), base_type) ELSE ""

\* the dtype a coercer converts a column declared type_str to
CoercedDtype(coercer, type_str) ==
    IF coercer = "tinyint" THEN (IF Contains(type_str, <<"(","1",")">>) THEN "bool" ELSE "int8")
    ELSE IF coercer = "str" THEN "object"
    ELSE coercer

\* sqlbbw.mappings imports Dict and List only: the name pd its coercers call is bound nowhere
PandasBound == FALSE

\* the call of a coercer raises: astype(str) and astype(bool, errors='ignore') do not; the
\* coercers that go through pd.to_numeric, pd.to_datetime or pd.to_timedelta look pd up,
\* and pandas raises on the values flagged
CoercerRaises(coercer, type_str, flagged) ==
    IF coercer \in {"str", "bool"} \/ (coercer = "tinyint" /\ Contains(type_str, <<"(","1",")">>))
    THEN FALSE
    ELSE ~PandasBound \/ flagged

\* str(value), astype(str): None reads 'None'
AsStr(x) == StrVal(IF x.t = "none" THEN <<"N","o","n","e">> ELSE x.s)

\* what a coercer that does not raise makes of a value
Coerced(coercer, type_str, x) ==
    IF coercer = "str" THEN AsStr(x) ELSE Converted(x, CoercedDtype(coercer, type_str))

\* dtype.lower() on the names of the dtypes
LowerDtype(dtype) == IF dtype = "Int64" THEN "int64" ELSE dtype

\* DataCorrector.dtype_to_sql(dtype)
DtypeToSql(d, dtype) ==
    IF HasKey(DtypeMap(d), LowerDtype(dtype)) THEN Get(DtypeMap(d), LowerDtype(dtype)) ELSE <<"T","E","X","T">>

\* the tables a connection is asked about
EngineTables == { <<"t">>, <<"u">> }

\* the table is not in col_cache; the table is not in the database
NotCached == [cached |-> FALSE, meta |-> <<>>]
NoTable == [exists |-> FALSE, columns |-> <<>>]

\* an entry of col_cache; a table of the database
Cached(meta) == [cached |-> TRUE, meta |-> meta]
Table(columns) == [exists |-> TRUE, columns |-> columns]

\* the inspector is not called
NotAsked == [exc |-> "not asked", columns |-> <<>>]

\* what inspector.get_columns(table) can do when cols calls it: fail on the connection,
\* report the columns of the table, and for a table that does not exist raise
\* NoSuchTableError or report no column
ProviderAnswers(cache, s, table) ==
    IF cache[table] # NotCached THEN {NotAsked}
    ELSE {[exc |-> "OperationalError", columns |-> <<>>]}
         \cup (IF s[table] = NoTable
               THEN {[exc |-> "NoSuchTableError", columns |-> <<>>], [exc |-> "", columns |-> <<>>]}
               ELSE {[exc |-> "", columns |-> s[table].columns]})

\* a cols that never looks into the cache
CorrectorColsUncached(cache, table, got) ==
    IF got.exc # ""
    THEN [exc |-> got.exc, meta |-> <<>>, cache |-> cache, asked |-> 1]
    ELSE Bind([i \in 1..Len(got.columns) |-> [k |-> got.columns[i].k, v |-> Upper(got.columns[i].v)]], LAMBDA meta :
         [exc |-> "", meta |-> meta, cache |-> [cache EXCEPT ![table] = Cached(meta)], asked |-> 1])

\* DataCorrector.cols(table) with the cache as it is and the inspector answering got:
\* the exception or the mapping returned, the cache afterwards, the calls of get_columns made
CorrectorCols(cache, table, got) ==
    IF cache[table] # NotCached
    THEN [exc |-> "", meta |-> cache[table].meta, cache |-> cache, asked |-> 0]
    ELSE IF got.exc # ""
    THEN [exc |-> got.exc, meta |-> <<>>, cache |-> cache, asked |-> 1]
    ELSE Bind([i \in 1..Len(got.columns) |-> [k |-> got.columns[i].k, v |-> Upper(got.columns[i].v)]], LAMBDA meta :
         [exc |-> "", meta |-> meta, cache |-> [cache EXCEPT ![table] = Cached(meta)], asked |-> 1])

\* one value of fix_rows: the body of the try and its except branch
FixValue(d, type_str, value, raises) ==
    IF value.t = "none" THEN NoneVal
    ELSE IF CoercerOf(d, BaseType(type_str)) = "" THEN AsStr(value)
    ELSE IF CoercerRaises(CoercerOf(d, BaseType(type_str)), type_str, raises) THEN NoneVal
    ELSE Coerced(CoercerOf(d, BaseType(type_str)), type_str, value)

\* one row of fix_rows; bad holds the keys of the row whose value pandas rejects
FixRow(d, meta, row, bad) ==
    Bind(SelectSeq(row, LAMBDA c : HasKey(meta, c.k)), LAMBDA known :
         [i \in 1..Len(known) |->
             [k |-> known[i].k, v |-> FixValue(d, Get(meta, known[i].k), known[i].v, known[i].k \in bad)]])

\* a fix_rows whose first raising coercion ends the batch: the rows from that one on are lost
FixRowsAborting(d, meta, rows, bad) ==
    Bind([r \in 1..Len(rows) |-> FixRow(d, meta, rows[r], {c[2] : c \in {b \in bad : b[1] = r}})], LAMBDA out :
    Bind({r \in 1..Len(rows) : \E i \in 1..Len(rows[r]) :
              rows[r][i].v.t # "none" /\ r <= Len(out) /\ \E j \in 1..Len(out[r]) :
                  out[r][j].k = rows[r][i].k /\ out[r][j].v = NoneVal}, LAMBDA failed :
         IF failed = {} THEN out
         ELSE SubSeq(out, 1, (CHOOSE r \in failed : \A q \in failed : r <= q) - 1)))

\* DataCorrector.fix_rows after meta = self.cols(table); bad holds the <<row, key>> pandas rejects
FixRows(d, meta, rows, bad) ==
    [r \in 1..Len(rows) |-> FixRow(d, meta, rows[r], {c[2] : c \in {b \in bad : b[1] = r}})]

\* one column of fix_df
FixColumn(d, type_str, col, raises) ==
    IF \/ CoercerOf(d, BaseType(type_str)) = ""
       \/ CoercerRaises(CoercerOf(d, BaseType(type_str)), type_str, raises)
    THEN [col EXCEPT !.dtype = "object", !.values = [i \in 1..Len(col.values) |-> AsStr(col.values[i])]]
    ELSE [col EXCEPT !.dtype = CoercedDtype(CoercerOf(d, BaseType(type_str)), type_str),
                     !.values = [i \in 1..Len(col.values) |->
                                    Coerced(CoercerOf(d, BaseType(type_str)), type_str, col.values[i])]]

\* DataCorrector.fix_df after meta = self.cols(table); bad holds the columns pandas rejects
FixDf(d, meta, df, bad) ==
    [c \in 1..Len(df) |->
        IF HasKey(meta, df[c].name) THEN FixColumn(d, Get(meta, df[c].name), df[c], df[c].name \in bad)
        ELSE df[c]]

\* the tables of the database a connection starts on
InitialSchema(d) ==
    [t \in EngineTables |->
        IF t # <<"t">> THEN NoTable
        ELSE Table(
             CASE d = S_mysql ->
                    Mapping(<< <<"i","d">>, <<"n","a","m","e">>, <<"f","l","a","g">> >>, << <<"b","i","g","i","n","t">>, <<"V","A","R","C","H","A","R","(","2","0",")">>, <<"j","s","o","n">> >>)
               [] d = S_sqlite ->
                    Mapping(<< <<"i","d">>, <<"n","a","m","e">>, <<"f","l","a","g">> >>, << <<"I","N","T","E","G","E","R">>, <<"T","E","X","T">>, <<"N","U","M","E","R","I","C">> >>)
               [] OTHER ->
                    Mapping(<< <<"i","d">>, <<"n","a","m","e">>, <<"f","l","a","g">> >>, << <<"B","I","G","I","N","T">>, <<"V","A","R","C","H","A","R","(","2","5","5",")">>, <<"J","S","O","N","B">> >>))]

-----------------------------------------------------------------------------
(* sqlbbw.audit.retry, SqlCon.execute and SqlCon.append with the helpers of *)
(* sqlbbw.utils it calls.  What the database does with a statement is an    *)
(* input: "" when the statement succeeds, else the exception it raises.     *)

\* sqlbbw.audit imports sqlite3, logging, time, functools, inspect, Lock and Optional: the
\* names OperationalError and InterfaceError of its except clause are bound nowhere
DriverErrorsBound == FALSE

\* the exceptions retry means to catch
DriverErrors == {"OperationalError", "InterfaceError"}

RECURSIVE Retry(_, _, _, _)
\* the wrapper of retry(tries, delay) from iteration attempt on; outcomes[i] is what the i-th
\* invocation of fn does.  The result: the exception raised ("" on return), the invocations
\* made, the sleeps taken, and which invocation's result was returned (0: None, fn not called)
Retry(tries, delay, attempt, outcomes) ==
    IF attempt > tries
    THEN [exc |-> "", calls |-> attempt - 1, slept |-> (attempt - 1) * delay, returned |-> 0]
    ELSE IF outcomes[attempt] = ""
    THEN [exc |-> "", calls |-> attempt, slept |-> (attempt - 1) * delay, returned |-> attempt]
    ELSE IF ~DriverErrorsBound
    THEN [exc |-> "NameError", calls |-> attempt, slept |-> (attempt - 1) * delay, returned |-> 0]
    ELSE IF outcomes[attempt] \notin DriverErrors \/ attempt = tries
    THEN [exc |-> outcomes[attempt], calls |-> attempt, slept |-> (attempt - 1) * delay, returned |-> 0]
    ELSE Retry(tries, delay, attempt + 1, outcomes)

\* the defaults of retry(): three tries, two seconds apart
DefaultTries == 3
DefaultDelay == 2

\* SqlCon.execute(sql) of a statement the database answers with outcome every time it is
\* sent: the exception the caller gets, "" when it returns
Execute(outcome) ==
    Retry(DefaultTries, DefaultDelay, 1, [i \in 1..DefaultTries |-> outcome]).exc

\* an entry of the record of what a call did
Event(e, col, flag) == [e |-> e, col |-> col, repair |-> flag]

\* a DataFrame column with its name
Named(name, col) == [name |-> name] @@ col

\* cast_df(df) inside create_table_schema: the columns are cast in place
CastInPlace(df) == [c \in 1..Len(df) |-> Named(df[c].name, CastColumn(df[c]))]

\* the columns CREATE TABLE declares for df
CreatedColumns(d, df) == [c \in 1..Len(df) |-> [k |-> df[c].name, v |-> DtypeToSql(d, df[c].dtype)]]

\* len(df.to_dict('records'))
RowCount(df) == IF df = <<>> THEN 0 ELSE Len(df[1].values)

\* create_table_schema(con, table, df): st is the state of the connection (schema, cache,
\* queries, log) and the DataFrame in use
CreateTableSchema(d, st, table, ddl) ==
    Bind(CastInPlace(st.df), LAMBDA cast :
         IF Execute(ddl) # ""
         THEN [st EXCEPT !.exc = Execute(ddl), !.df = cast, !.log = Append(@, Event("create", <<>>, FALSE))]
         ELSE [st EXCEPT !.df = cast, !.log = Append(@, Event("create", <<>>, FALSE)),
                         !.schema = [@ EXCEPT ![table] = Table(CreatedColumns(d, cast))]])

\* lines 78-91 of append: fix_df, inspect_db, the creation of the table, insert_batch.
\* env holds what the inspector, pandas and the database do during the call
AppendPass(d, st0, table, if_exists, repair, env, pass) ==
    Bind([st0 EXCEPT !.log = Append(@, Event("append", <<>>, repair))], LAMBDA st1 :
    Bind(CorrectorCols(st1.cache, table, env.answer), LAMBDA c :
    Bind([st1 EXCEPT !.cache = c.cache,
                     !.queries = [@ EXCEPT ![table] = @ + c.asked],
                     !.log = IF c.asked = 1 THEN Append(@, Event("get_columns", <<>>, FALSE)) ELSE @], LAMBDA st2 :
    IF c.exc # "" THEN [st2 EXCEPT !.exc = c.exc]
    ELSE
    Bind([st2 EXCEPT !.df = FixDf(d, c.meta, @, env.bad)], LAMBDA st3 :
    IF env.inspect # "" THEN [st3 EXCEPT !.exc = env.inspect]
    ELSE
    Bind(IF st3.schema[table] = NoTable
         THEN CreateTableSchema(d, st3, table, env.ddl)
         ELSE IF if_exists = <<"r","e","p","l","a","c","e">>
         THEN IF Execute(env.ddl) # ""
              THEN [st3 EXCEPT !.exc = Execute(env.ddl), !.log = Append(@, Event("drop", <<>>, FALSE))]
              ELSE CreateTableSchema(d, [st3 EXCEPT !.log = Append(@, Event("drop", <<>>, FALSE)),
                                                    !.schema = [@ EXCEPT ![table] = NoTable]],
                                     table, env.ddl)
         ELSE st3, LAMBDA st4 :
    IF st4.exc # "" THEN st4
    ELSE IF RowCount(st4.df) = 0 THEN st4
    ELSE [st4 EXCEPT !.log = Append(@, Event("insert", <<>>, FALSE)),
                     !.exc = env.insert[pass],
                     !.insert_failed = env.insert[pass] # ""])))))

\* a repair that alters no column
AlterNothing(d, st, table, if_exists, env, c) == st

RECURSIVE AlterColumns(_, _, _, _, _, _)
\* the loop of lines 96-104 from the c-th column on: every column whose cached type differs
\* from the type of its dtype is altered, until an alteration raises
AlterColumns(d, st, table, if_exists, env, c) ==
    IF c > Len(st.df) THEN st
    ELSE
    Bind(CorrectorCols(st.cache, table, env.answer), LAMBDA m :
    Bind(DtypeToSql(d, LowerDtype(st.df[c].dtype)), LAMBDA expected_sql :
    IF m.exc # "" THEN [st EXCEPT !.exc = m.exc]
    ELSE IF ~HasKey(m.meta, st.df[c].name) THEN AlterColumns(d, st, table, if_exists, env, c + 1)
    ELSE IF Get(m.meta, st.df[c].name) = <<>> \/ Get(m.meta, st.df[c].name) = expected_sql
    THEN AlterColumns(d, st, table, if_exists, env, c + 1)
    ELSE IF d \notin {S_postgresql, S_oracle, S_mysql, S_mssql}
    THEN [st EXCEPT !.exc = "NotImplementedError"]
    ELSE IF Execute(IF st.df[c].name \in env.rejected THEN "ProgrammingError" ELSE "") # ""
    THEN [st EXCEPT !.exc = Execute("ProgrammingError"),
                    !.log = Append(@, Event("alter", st.df[c].name, FALSE))]
    ELSE AlterColumns(d,
                      [st EXCEPT !.log = Append(@, Event("alter", st.df[c].name, FALSE)),
                                 !.schema = IF Contains(Lower(if_exists), <<"f","i","l","t","e","r">>) THEN @
                                            ELSE [@ EXCEPT ![table].columns =
                                                     [i \in 1..Len(@) |->
                                                         IF @[i].k = st.df[c].name
                                                         THEN [k |-> @[i].k, v |-> expected_sql]
                                                         ELSE @[i]]]],
                      table, if_exists, env, c + 1)))

RECURSIVE SqlConAppend(_, _, _, _, _, _, _)
\* SqlCon.append(table, data, if_exists, repair); pass counts the calls of append
SqlConAppend(d, st0, table, if_exists, repair, env, pass) ==
    Bind(AppendPass(d, st0, table, if_exists, repair, env, pass), LAMBDA st :
    IF ~st.insert_failed THEN st
    ELSE IF ~repair THEN st
    ELSE
    Bind(CorrectorCols(st.cache, table, env.answer), LAMBDA m :
    IF m.exc # "" THEN [st EXCEPT !.exc = m.exc, !.insert_failed = FALSE]
    ELSE
    Bind(AlterColumns(d, [st EXCEPT !.exc = "", !.insert_failed = FALSE], table, if_exists, env, 1), LAMBDA st5 :
    IF st5.exc # "" THEN st5
    ELSE SqlConAppend(d, st5, table, if_exists, FALSE, env, pass + 1))))

-----------------------------------------------------------------------------
(* Inputs the operations are called with *)

N_t == <<"t">>
N_a == <<"a">>
N_b == <<"b">>
N_a_1 == <<"a","_","1">>
N_id == <<"i","d">>
\* names outside ^[A-Za-z0-9_]+$
N_newline == <<"t","\n">>
N_unicode == <<"t", "U+00E9">>
N_semicolon == <<"a",";">>
N_dotted == <<"s",".","t">>
N_quoted == <<"a","\"">>


BuilderDialects == {S_oracle, S_mssql, S_mysql, S_postgres, S_postgresql, S_sqlite, S_default}
\* dialect names as callers write them
DialectNames == BuilderDialects \cup { <<"M","y","S","Q","L">>, <<"O","R","A","C","L","E">>, <<"d","b","2">>, <<>> }

V(n) == IntVal(n)
ListOf(items) == [shape |-> "list", items |-> items]
Scalar(v) == [shape |-> "scalar", items |-> <<v>>]
DictCond(field, operator, value) ==
    [kind |-> "dict", field |-> field, operator |-> operator, value |-> value, aggregate |-> <<>>, text |-> <<>>]
TupleCond(field, operator, value) ==
    [kind |-> "tuple", field |-> field, operator |-> operator, value |-> value, aggregate |-> <<>>, text |-> <<>>]
\* a condition given as free text
TextCond(text) ==
    [kind |-> "text", field |-> <<>>, operator |-> <<>>, value |-> ListOf(<<>>), aggregate |-> <<>>, text |-> text]

C_a_eq == DictCond(N_a, <<"=">>, Scalar(V(10)))
C_b_eq == DictCond(N_b, <<"=">>, Scalar(V(20)))
C_a_gt == DictCond(N_a, <<">">>, ListOf(<<V(30)>>))
C_a_ne == DictCond(N_a, <<"<",">">>, Scalar(V(40)))
C_a_in3 == DictCond(N_a, <<"I","N">>, ListOf(<<V(1), V(2), V(3)>>))
C_a_1_eq == TupleCond(N_a_1, <<"=">>, ListOf(<<V(50)>>))
C_set_x_eq == DictCond(<<"s","e","t","_","x">>, <<"=">>, Scalar(V(9)))
C_a_between == DictCond(N_a, <<"B","E","T","W","E","E","N">>, ListOf(<<V(1), V(9)>>))
C_b_null == DictCond(N_b, <<"i","s"," ","n","u","l","l">>, ListOf(<<>>))
C_a_like == DictCond(N_a, <<"l","i","k","e">>, Scalar(StrVal(<<"x","%">>)))
C_b_in_text == TupleCond(N_b, <<"n","o","t"," ","i","n">>, Scalar(StrVal(<<"u",","," ","v">>)))
C_a_date == DictCond(N_a, <<">","=">>, Scalar(StrVal(<<"2","0","2","4","-","0","1","-","3","1">>)))
C_b_ne_date == DictCond(N_b, <<"<",">">>, Scalar(StrVal(<<"2","0","2","4","-","0","1","-","3","1">>)))
C_a_datetime == TupleCond(N_a, <<"<">>, ListOf(<<StrVal(<<"2","0","2","4","-","0","1","-","3","1"," ","1","0",":","2","0",":","3","0">>)>>))
C_age_text == TextCond(<<"a","g","e"," ",">"," ","3","0">>)
C_name_text == TextCond(<<"n","a","m","e"," ","L","I","K","E"," ","'","A","%","'">>)
C_minus_text == TextCond(<<"a"," ",">"," ","-","5">>)
C_sum_a == [DictCond(N_a, <<">">>, Scalar(V(60))) EXCEPT !.aggregate = <<"s","u","m">>]
C_bad_field == DictCond(N_semicolon, <<"=">>, Scalar(V(10)))
C_newline_field == DictCond(N_newline, <<"=">>, Scalar(V(10)))
C_bad_op == DictCond(N_a, <<"D","R","O","P">>, Scalar(V(10)))
C_no_value == DictCond(N_a, <<"=">>, ListOf(<<>>))

Given(items) == [none |-> FALSE, items |-> items]

\* lists every condition of which is accepted and compiles
GoodCondLists ==
    { <<C_a_eq>>, <<C_a_eq, C_b_eq>>, <<C_a_eq, C_a_gt>>, <<C_a_eq, C_b_eq, C_a_ne>>,
      <<C_a_in3, C_a_1_eq>>, <<C_a_between, C_b_null>>, <<C_a_like, C_b_in_text>>,
      <<C_a_date, C_sum_a>>, <<C_b_ne_date, C_a_datetime>>,
      <<C_age_text, C_name_text>> }
BadCondLists ==
    { <<C_bad_field>>, <<C_a_eq, C_bad_op>>, <<C_no_value>>, <<C_newline_field>>, <<C_minus_text>> }

NoConditions == {Absent, Given(<<>>)}
ConditionArgs == NoConditions \cup {Given(l) : l \in GoodCondLists \cup BadCondLists}

Expr(text) == [none |-> FALSE, text |-> text]
ExprSamples ==
    { <<"1"," ","A","N","D"," ","2">>, <<"2"," ","O","R"," ","1">>, <<"(","1"," ","O","R"," ","2">>, <<"1"," ","O","R"," ","1">>, <<"1"," ","O","R","2">>, <<"3"," ","A","N","D"," ","1">>, <<"0"," ","O","R"," ","1">>,
      <<"1",";"," ","D","R","O","P"," ","T","A","B","L","E"," ","t">>, <<"("," ",")">>, <<"0","1"," ","O","R"," ","2","\n">> }
ExpressionArgs == {NoExpression} \cup {Expr(e) : e \in ExprSamples}

\* every text of at most MaxExprLen characters over this alphabet
ExprAlphabet == {"0", "1", "2", "A", "R", "(", " ", ";"}
ShortExprs == UNION {[1..k -> ExprAlphabet] : k \in 0..MaxExprLen}

Num(n) == [none |-> FALSE, n |-> n]

Data_x == <<[k |-> <<"x">>, v |-> V(1)]>>
Data_id_v == <<[k |-> N_id, v |-> V(7)], [k |-> <<"v">>, v |-> StrVal(<<"w">>)]>>
Data_id_w == <<[k |-> N_id, v |-> V(8)], [k |-> <<"v">>, v |-> StrVal(<<"z">>)]>>
Data_x_1 == <<[k |-> <<"x","_","1">>, v |-> V(5)]>>
Data_bad == <<[k |-> N_semicolon, v |-> V(1)]>>
Data_newline == <<[k |-> N_newline, v |-> V(1)]>>
DataArgs == {Data_x, Data_id_v, Data_bad, Data_newline}

Cols(names) == [isList |-> TRUE, names |-> names, raw |-> <<>>]
Raw(text) == [isList |-> FALSE, names |-> <<>>, raw |-> text]
ColumnArgs == {Star, Cols(<<N_id, N_a>>), Cols(<<N_semicolon>>), Cols(<<N_quoted, N_a>>), Raw(<<"a",","," ","b">>)}

SelectBase ==
    [table |-> N_t, columns |-> Cols(<<N_id, N_a>>), conditions |-> Absent, expression |-> NoExpression,
     order_by |-> <<>>, limit |-> NoInt, offset |-> NoInt, group_by |-> <<>>, having |-> Absent,
     having_expr |-> NoExpression]

OrderArgs ==
    { <<>>, <<[field |-> N_a, direction |-> <<"d","e","s","c">>]>>,
      <<[field |-> N_a, direction |-> <<"A","S","C">>], [field |-> N_semicolon, direction |-> <<"A","S","C">>]>>,
      <<[field |-> N_a, direction |-> <<"d","o","w","n">>]>> }
GroupArgs == { <<>>, <<N_a>>, <<N_a, N_dotted>> }

TableArgs == {N_t, N_newline, N_unicode, N_dotted, N_semicolon}

\* select arguments that vary the WHERE clause
SelectWhereArgs ==
    {[SelectBase EXCEPT !.conditions = c, !.expression = e] : c \in ConditionArgs, e \in ExpressionArgs}

\* select arguments that vary the names, the grouping, the ordering and the pagination
SelectShapeArgs ==
    {[SelectBase EXCEPT !.table = t, !.columns = c] : t \in {N_t, N_newline, N_dotted}, c \in ColumnArgs}
    \cup {[SelectBase EXCEPT !.group_by = g, !.having = h, !.having_expr = e, !.conditions = c] :
             g \in GroupArgs, h \in {Absent, Given(<<C_sum_a>>), Given(<<C_bad_op>>)},
             e \in {NoExpression, Expr(<<"1">>)}, c \in {Absent, Given(<<C_a_eq>>)}}
    \cup {[SelectBase EXCEPT !.order_by = o] : o \in OrderArgs}
    \cup {[SelectBase EXCEPT !.limit = l, !.offset = o, !.conditions = c] :
             l \in {NoInt, Num(0), Num(10)}, o \in {NoInt, Num(0), Num(5)}, c \in {Absent, Given(<<C_a_eq>>)}}

-----------------------------------------------------------------------------
(* The engine as a state machine: a caller makes one builder call at a     *)
(* time and consumes what it returned; every Condition a call constructs   *)
(* draws its id from the process-wide counter.                             *)

Idle == [op |-> "idle"]
NoResult == Raise("", "", 0)

\* the threads that construct conditions
Threads == {"T1", "T2"}

\* no Condition constructed yet, no call made
BuilderInit ==
    /\ ids = 1
    /\ call = Idle
    /\ result = NoResult
    /\ pc = [t \in Threads |-> "idle"]
    /\ uid = [t \in Threads |-> 0]
    /\ built = <<>>
    /\ taken = <<>>

\* SqlCon.__init__ on database d holding the tables s: a DataCorrector with an empty cache
Connected(d, s) ==
    /\ db = d
    /\ schema = s
    /\ col_cache = [t \in EngineTables |-> NotCached]
    /\ queries = [t \in EngineTables |-> 0]
    /\ ecall = [op |-> "none"]

Init ==
    /\ BuilderInit
    /\ Connected(S_mysql, InitialSchema(S_mysql))

threadVars == <<pc, uid, built, taken>>
connVars == <<db, schema, col_cache, queries, ecall>>

CanCall == call.op = "idle" /\ ids <= MaxIds

\* the call named op with arguments a returns r: the counter is where the call left it
Returns(op, a, r) ==
    /\ call' = [op |-> op, ids0 |-> ids] @@ a
    /\ result' = r
    /\ ids' = r.ids
    /\ UNCHANGED <<threadVars, connVars>>

BuildWhereCalls ==
    {[dialect |-> d, conditions |-> c, expression |-> e] :
        d \in {S_oracle, S_mysql}, c \in ConditionArgs, e \in ExpressionArgs}
    \cup {[dialect |-> S_postgres, conditions |-> c, expression |-> Expr(x)] :
        c \in {Absent, Given(<<C_a_eq>>), Given(<<C_a_eq, C_b_eq>>)}, x \in ShortExprs}

CallBuildWhere ==
    /\ CanCall
    /\ \E a \in BuildWhereCalls :
          Returns("build_where", a, BuildWhere(a.dialect, a.conditions, a.expression, ids))

SelectCalls ==
    {[dialect |-> d, args |-> a] : d \in {S_postgres, S_oracle}, a \in SelectWhereArgs}
    \cup {[dialect |-> d, args |-> a] : d \in BuilderDialects, a \in SelectShapeArgs}

CallSelect ==
    /\ CanCall
    /\ \E a \in SelectCalls : Returns("select", a, Select(a.dialect, a.args, ids))

UpdateCalls ==
    {[dialect |-> d, table |-> N_t, data |-> Data_x, conditions |-> c, expression |-> e, allow_full |-> FALSE] :
        d \in {S_postgres, S_sqlite}, c \in ConditionArgs, e \in ExpressionArgs}
    \cup {[dialect |-> d, table |-> N_t, data |-> Data_id_v, conditions |-> c, expression |-> NoExpression,
           allow_full |-> f] :
        d \in BuilderDialects, c \in NoConditions \cup {Given(<<C_a_eq>>)}, f \in BOOLEAN}
    \cup {[dialect |-> d, table |-> t, data |-> x, conditions |-> c, expression |-> NoExpression,
           allow_full |-> f] :
        d \in {S_oracle, S_mysql}, t \in TableArgs, x \in DataArgs,
        c \in NoConditions \cup {Given(<<C_a_eq>>)}, f \in BOOLEAN}
    \cup {[dialect |-> d, table |-> N_t, data |-> x, conditions |-> Given(<<C_set_x_eq>>),
           expression |-> NoExpression, allow_full |-> FALSE] :
        d \in {S_oracle, S_mysql}, x \in {Data_x, Data_x_1}}

CallUpdate ==
    /\ CanCall
    /\ \E a \in UpdateCalls :
          Returns("update", a,
                  Update(a.dialect, a.table, a.data, a.conditions, a.expression, a.allow_full, ids))

DeleteCalls ==
    {[dialect |-> d, table |-> N_t, conditions |-> c, expression |-> e, allow_full |-> FALSE] :
        d \in {S_mssql, S_mysql}, c \in ConditionArgs, e \in ExpressionArgs}
    \cup {[dialect |-> d, table |-> t, conditions |-> c, expression |-> NoExpression, allow_full |-> f] :
        d \in BuilderDialects, t \in TableArgs, c \in NoConditions \cup {Given(<<C_a_eq>>)}, f \in BOOLEAN}

CallDelete ==
    /\ CanCall
    /\ \E a \in DeleteCalls :
          Returns("delete", a, Delete(a.dialect, a.table, a.conditions, a.expression, a.allow_full, ids))

RowArgs ==
    { <<>>, <<Data_x>>, <<Data_id_v, Data_id_v>>, <<Data_id_v, Data_id_w>>, <<Data_id_v, Data_x>>,
      <<Data_bad>>, <<Data_newline>> }

CallInsertBulk ==
    /\ CanCall
    /\ \E d \in BuilderDialects, t \in TableArgs, rows \in RowArgs :
          Returns("insert_bulk", [dialect |-> d, table |-> t, rows |-> rows], InsertBulk(d, t, rows, ids))

CallInsert ==
    /\ CanCall
    /\ \E d \in BuilderDialects, t \in TableArgs, x \in DataArgs :
          Returns("insert", [dialect |-> d, table |-> t, data |-> x], Insert(d, t, x, ids))

PkArgs == { <<N_id>>, <<N_id, N_semicolon>>, <<>>, <<N_newline>> }

UpsertCalls ==
    {[dialect |-> d, table |-> N_t, data |-> x, pk |-> pk] : d \in BuilderDialects, x \in DataArgs, pk \in PkArgs}
    \cup {[dialect |-> d, table |-> t, data |-> Data_id_v, pk |-> <<N_id>>] :
             d \in {S_postgres, S_mysql}, t \in TableArgs}

CallUpsert ==
    /\ CanCall
    /\ \E a \in UpsertCalls : Returns("upsert", a, Upsert(a.dialect, a.table, a.data, a.pk, ids))

SourceArgs ==
    { [kind |-> "dict", cols |-> <<[k |-> N_id, v |-> <<"I","N","T","E","G","E","R">>], [k |-> N_a, v |-> <<"T","E","X","T">>]>>],
      [kind |-> "dict", cols |-> <<[k |-> N_semicolon, v |-> <<"T","E","X","T">>]>>],
      [kind |-> "frame", cols |-> <<[k |-> N_id, v |-> <<"i","n","t","6","4">>], [k |-> N_quoted, v |-> <<"o","b","j","e","c","t">>]>>],
      [kind |-> "other", cols |-> <<>>] }
FkArgs ==
    { <<>>,
      <<[column |-> N_a, ref_table |-> N_t, ref_column |-> N_id, on_delete |-> <<"c","a","s","c","a","d","e">>, on_update |-> <<>>]>>,
      <<[column |-> N_a, ref_table |-> N_dotted, ref_column |-> N_id, on_delete |-> <<>>, on_update |-> <<>>]>> }

CreateTableCalls ==
    {[dialect |-> d, table |-> t, source |-> src, pk |-> <<N_id>>, fk |-> <<>>, if_not_exists |-> TRUE] :
        d \in {S_oracle, S_mysql, S_postgresql, S_default}, t \in TableArgs, src \in SourceArgs}
    \cup {[dialect |-> d, table |-> N_t, source |-> src, pk |-> pk, fk |-> fk, if_not_exists |-> ine] :
        d \in {S_oracle, S_postgresql}, src \in SourceArgs, pk \in PkArgs, fk \in FkArgs, ine \in BOOLEAN}

CallCreateTable ==
    /\ CanCall
    /\ \E a \in CreateTableCalls :
          Returns("create_table", a,
                  CreateTable(a.table, a.source, a.pk, a.fk, a.dialect, a.if_not_exists, ids))

\* canonical statements handed to adapt_sql directly
SqlArgs ==
    { [sql |-> <<"S","E","L","E","C","T"," ","*"," ","F","R","O","M"," ","\"","t","\""," ","W","H","E","R","E"," ","\"","a","\""," ","="," ",":","a","_","1"," ","A","N","D"," ","\"","b","\""," ","I","N"," ","(",":","b","_","2","_","0",",",":","b","_","2","_","1",")">>,
       ptype |-> "dict",
       params |-> <<[k |-> <<"a","_","1">>, v |-> V(10)], [k |-> <<"b","_","2","_","0">>, v |-> V(20)], [k |-> <<"b","_","2","_","1">>, v |-> V(30)]>>],
      [sql |-> <<"S","E","L","E","C","T"," ","*"," ","F","R","O","M"," ","\"","t","\""," ","O","F","F","S","E","T"," ","5"," ","R","O","W","S"," ","F","E","T","C","H"," ","N","E","X","T"," ","1","0"," ","R","O","W","S"," ","O","N","L","Y">>, ptype |-> "dict", params |-> <<>>],
      [sql |-> <<"S","E","L","E","C","T"," ","*"," ","F","R","O","M"," ","\"","t","\""," ","o","f","f","s","e","t"," ","0"," ","r","o","w","s">>, ptype |-> "dict", params |-> <<>>],
      [sql |-> <<"D","E","L","E","T","E"," ","F","R","O","M"," ","\"","t","\""," ","W","H","E","R","E"," ","\"","a","\""," ","="," ",":","a","_","1">>, ptype |-> "list", params |-> <<V(10)>>] }

CallAdaptSql ==
    /\ CanCall
    /\ \E d \in DialectNames, a \in SqlArgs :
          Returns("adapt_sql", [dialect |-> d, sql |-> a.sql, ptype |-> a.ptype, params |-> a.params],
                  AdaptSql(a.sql, a.ptype, a.params, d, ids))

\* payloads of json_select: the keys present, and their values
SelectPayloads ==
    {[keys |-> {"table", "fields", "condition", "expression"}, table |-> N_t, fields |-> Cols(<<N_id, N_a>>),
      condition |-> c, expression |-> e] : c \in ConditionArgs, e \in ExpressionArgs}
SmallSelectPayloads ==
    {[keys |-> {"table", "limit", "start", "orderby"}, table |-> t, limit |-> Num(10), start |-> o,
      orderby |-> <<[field |-> N_a, direction |-> <<"A","S","C">>]>>] : t \in {N_t, N_dotted}, o \in {Num(0), Num(5)}}
    \cup {[keys |-> {"table", "condition"}, table |-> N_t, condition |-> Given(l)] :
             l \in { <<C_a_eq, C_b_eq>>, <<C_a_between, C_b_null>>, <<C_a_like, C_b_in_text>> }}
    \cup {[keys |-> {"fields"}, fields |-> Star], [keys |-> {"table"}, table |-> N_t]}

JsonSelectCalls ==
    {[dialect |-> d, payload |-> p] : d \in {S_mysql, S_sqlite, S_postgresql}, p \in SelectPayloads}
    \cup {[dialect |-> d, payload |-> p] : d \in DialectNames, p \in SmallSelectPayloads}

CallJsonSelect ==
    /\ CanCall
    /\ \E a \in JsonSelectCalls : Returns("json_select", a, JsonSelect(a.payload, a.dialect, ids))

InsertRows ==
    { <<>>,
      <<[table |-> N_t, insertValues |-> Data_x]>>,
      <<[table |-> N_t, insertValues |-> Data_id_v], [table |-> N_t, insertValues |-> Data_id_v]>>,
      <<[table |-> N_t, insertValues |-> Data_x], [table |-> N_a, insertValues |-> Data_x]>>,
      <<[table |-> N_dotted, insertValues |-> Data_x]>> }

CallJsonInsert ==
    /\ CanCall
    /\ \E d \in DialectNames, rows \in InsertRows, multi_row \in BOOLEAN :
          Returns("json_insert", [dialect |-> d, rows |-> rows, multi_row |-> multi_row],
                  JsonInsert(rows, d, multi_row, ids))

UpdatePayloads ==
    {[keys |-> {"table", "updateValues", "condition", "expression"}, table |-> N_t, updateValues |-> Data_x,
      condition |-> c, expression |-> e] : c \in ConditionArgs, e \in ExpressionArgs}
SmallUpdatePayloads ==
    {[keys |-> {"table", "updateValues", "condition"}, table |-> t, updateValues |-> x,
      condition |-> Given(<<C_a_eq>>)] : t \in {N_t, N_dotted}, x \in DataArgs}
    \cup {[keys |-> {"table", "updateValues"}, table |-> N_t, updateValues |-> Data_x],
          [keys |-> {"table"}, table |-> N_t],
          [keys |-> {"table", "updateValues", "condition", "limit"}, table |-> N_t, updateValues |-> Data_x,
           condition |-> Given(<<C_a_eq>>), limit |-> Num(1)]}

JsonUpdateCalls ==
    {[dialect |-> d, payload |-> p] : d \in {S_mysql, S_oracle}, p \in UpdatePayloads}
    \cup {[dialect |-> d, payload |-> p] : d \in DialectNames, p \in SmallUpdatePayloads}

CallJsonUpdate ==
    /\ CanCall
    /\ \E a \in JsonUpdateCalls : Returns("json_update", a, JsonUpdate(a.payload, a.dialect, ids))

DeletePayloads ==
    {[keys |-> {"table", "condition", "expression"}, table |-> N_t, condition |-> c, expression |-> e] :
        c \in ConditionArgs, e \in ExpressionArgs}
SmallDeletePayloads ==
    {[keys |-> {"table", "condition"}, table |-> t, condition |-> Given(<<C_a_eq>>)] : t \in {N_t, N_dotted}}
    \cup {[keys |-> {"table"}, table |-> N_t],
          [keys |-> {"condition"}, condition |-> Given(<<C_a_eq>>)]}

JsonDeleteCalls ==
    {[dialect |-> d, payload |-> p] : d \in {S_sqlite, S_mssql}, p \in DeletePayloads}
    \cup {[dialect |-> d, payload |-> p] : d \in DialectNames, p \in SmallDeletePayloads}

CallJsonDelete ==
    /\ CanCall
    /\ \E a \in JsonDeleteCalls : Returns("json_delete", a, JsonDelete(a.payload, a.dialect, ids))

\* free texts handed to Condition.from_string
TextSamples ==
    { <<"a","g","e"," ",">"," ","3","0">>, <<"n","a","m","e"," ","L","I","K","E"," ","'","A","%","'">>, <<"a"," ","="," ","1">>, <<"a"," ","="," ","0","0","7">>, <<"a"," ","="," ","1",".","5">>, <<"a"," ","="," ","a","b","c">>, <<"a"," ","="," ","N","o">>,
      <<"a"," ","="," ","'","1","2","'">>, <<"a"," ","="," ","'","x","'","'","y","'">>, <<"a"," ","="," ","'"," ","5"," ","'">>, <<"a"," ","="," ","'","-","5","'">>, <<"a"," ","="," ","'","1","e","5","'">>, <<"a"," ","="," ","'","n","a","n","'">>, <<"a"," ","="," ","'","1","_","0","'">>,
      <<"a"," ","L","I","K","E"," ","'","1","'">>, <<"a"," ","i","l","i","k","e"," ","'","Y","e","s","'">>, <<"a"," ","L","I","K","E"," ","5">>, <<"a"," ","I","S"," ","N","U","L","L">>, <<"a"," ","i","s"," ","n","o","t"," ","n","u","l","l">>, <<"a"," ","I","S"," "," ","N","U","L","L">>,
      <<"a"," ","B","E","T","W","E","E","N"," ","3"," ","A","N","D"," ","9">>, <<"a"," ","b","e","t","w","e","e","n"," ","1"," ","a","n","d"," ","2",".","5">>, <<"a"," ","B","E","T","W","E","E","N"," ","3"," ","9">>, <<"a"," ","B","E","T","W","E","E","N"," ","3"," ","O","R"," ","9">>,
      <<"a"," ","I","N"," ","(","3",","," ","'","x","'",","," ","5",")">>, <<"a"," ","I","N"," ","(","x",","," ","3",")">>, <<"a"," ","N","O","T"," ","I","N"," ","(","3"," ","4",")">>, <<"a"," ","n","o","t"," "," ","i","n"," ","(","3",")">>, <<"a"," ","I","N"," ","3">>, <<"a"," ","I","N"," ","(","3">>,
      <<"a"," ","I","N"," ","(",")">>, <<"a"," ","I","N"," ","(","3",")"," ","O","R"," ","(","4",")">>, <<"a"," ","i","n"," ","(","t","r","u","e",","," ","'","n","o","'",","," ","7",")">>,
      <<>>, <<" "," "," ">>, <<">"," ","3">>, <<"3"," ",">"," ","a">>, <<"a","g","e">>, <<"a","g","e"," ","f","o","o"," ","3">>, <<"a","g","e"," ",">">>, <<"a","g","e"," ",">"," ","3","0"," ","O","R"," ","1"," ","="," ","1">>,
      <<"a"," ","I","S"," ","N","U","L","L"," ","j","u","n","k">>, <<"a"," ",">"," ","-","5">>, <<"a"," ",";"," ","b">>, <<"n","o","t"," ",">"," ","3">>, <<"a"," ","="," ","2","e","5">>, <<"a"," ","="," ","'","'","'">>, <<"a","<",">","3">>,
      <<"a","\n","="," ","3","\n">>, <<"t", "U+00E9", " ", "=", " ", "3">> }

\* every text of at most MaxTextLen characters over this alphabet
TextAlphabet == {"a", " ", ">", "3", "(", "'"}
ShortTexts == UNION {[1..k -> TextAlphabet] : k \in 0..MaxTextLen}

\* what the caller of from_string gets: the Condition, or the exception
ReturnCondition(made) ==
    IF made.exc # "" THEN Raise(made.exc, made.msg, made.ids)
    ELSE [exc |-> "", msg |-> "", sql |-> <<>>, ptype |-> "condition", params |-> <<made.cond>>, ids |-> made.ids]

CallFromString ==
    /\ CanCall
    /\ \E text \in TextSamples \cup ShortTexts :
          Returns("from_string", [text |-> text], ReturnCondition(FromString(text, ids)))

\* texts a column of a DataFrame may hold
CastTexts ==
    { <<"1","7","0","0","0","0","0","0","0","0">>, <<"1","7","0","0","0","0","0","0","0","0",".","5">>, <<"1","7","0","0","0","0","0","0","0","0","0","0","0">>, <<"1","7","0","0","0","0","0","0","0","0","0","0","0","0","0","0">>, <<"1","0","0","0","0","0","0","0","0","0","0","0","0">>,
      <<"1","0","0","0","0","0","0","0","0","0","0","0","0","0","0","0">>, <<"1","0","0","0","0","0","0","0","0","0","0","0","0","0","0","1">>, <<"1","7","0","0","0","0","0","0","0","0","0">>, <<"0","0","0","0","0","0","0","0","0","1">>,
      <<"2","0","2","1","-","0","1","-","0","1">>, <<"2","0","2","1","-","0","6","-","1","5">>, <<"0","1","/","0","2","/","2","0","2","1">>, <<"0","1","-","0","2","-","2","0","2","1">>, <<"1","-","J","a","n","-","2","0","2","1">>, <<"J","a","n"," ","5",","," ","2","0","2","1">>,
      <<"J","a","n"," "," ","5"," ","2","0","2","1">>, <<"2","0","2","1","-","1","-","1">>, <<"1", "-", "f", "U+00E9", "v", "-", "2", "0", "2", "1">>,
      <<"9",":","3","0">>, <<"0","9",":","3","0",":","1","5">>, <<"9",":","3","0"," ","P","M">>, <<"9",":","3","0","P","M">>, <<"0","9",":","3","0",":","1","5",".","1","2","3">>, <<"9",":","3","0",":","1","5"," ","A","M">>, <<"9",":","3">>,
      <<"2","0","2","1","-","0","1","-","0","1"," ","1","0",":","2","0",":","3","0">>, <<"2","0","2","1","-","0","1","-","0","1","T","1","0",":","2","0",":","3","0","Z">>, <<"2","0","2","1","-","0","1","-","0","1"," ","1","0",":","2","0",":","3","0",".","5">>, <<"2","0","2","1","-","0","1","-","0","1","T","1","0",":","2","0",":","3","0",".","2","5">>,
      <<"2","0","2","1","-","0","1","-","0","1"," ","1","0",":","2","0">>,
      <<"1">>, <<"2">>, <<"3">>, <<"-","5">>, <<"0","0","7">>, <<"+","5">>, <<"0">>,
      <<"1",".","5">>, <<".","5">>, <<"-",".","5">>, <<"1","e","5">>, <<"1",".","e","5">>, <<"1",".","5","E","-","3">>, <<"5",".">>, <<"e","5">>,
      <<"t","r","u","e">>, <<"n","o">>, <<"T","R","U","E">>, <<"Y","e","s">>, <<"y">>, <<"N">>, <<"m","a","y","b","e">>, <<"t","r","u","e","e">>,
      <<"1","2","3","e","4","5","6","7","-","e","8","9","b","-","1","2","d","3","-","a","4","5","6","-","4","2","6","6","1","4","1","7","4","0","0","0">>, <<"1","2","3","e","4","5","6","7","-","e","8","9","b","-","1","2","d","3","-","a","4","5","6","-","4","2","6","6","1","4","1","7","4","0","0","g">>,
      <<"a","@","b",".","c","o">>, <<"a","@","b",".","c">>, <<"a",".","b","+","c","@","d","-","e",".","o","r","g">>,
      <<"h","t","t","p",":","/","/","x",".","y">>, <<"h","t","t","p","s",":","/","/","x">>, <<"h","t","t","p","s",":","/","/","a"," ","b">>, <<"f","t","p",":","/","/","x">>, <<"h","t","t","p",":","/","x">>,
      <<"{","}">>, <<"[","1",","," ","2","]">>, <<"{","\"","a","\"",":"," ","1","}">>, <<"{","a","\n","b","}">>, <<"{","]">>,
      <<"a","b","c">>, <<" ","t","r","u","e"," ">>, <<"\\","t","1","2"," ">>, <<" ">>, <<>> }

\* columns: one per text, and columns of several values
CastColumns ==
    {Column("object", <<StrVal(t)>>) : t \in CastTexts}
    \cup {Column("object", vs) : vs \in
            { <<StrVal(<<"1">>), StrVal(<<"2">>), StrVal(<<"3">>)>>,
              <<StrVal(<<"t","r","u","e">>), StrVal(<<"n","o">>), StrVal(<<"1">>)>>,
              <<StrVal(<<"2","0","2","1","-","0","1","-","0","1">>), StrVal(<<"2","0","2","1","-","0","6","-","1","5">>)>>,
              <<StrVal(<<"1">>), NoneVal, StrVal(<<"2">>)>>,
              <<NoneVal, NoneVal>>,
              <<>>,
              <<StrVal(<<"1">>), StrVal(<<"x">>)>>,
              <<StrVal(<<"1">>), StrVal(<<"1",".","5">>)>>,
              <<StrVal(<<"0">>), StrVal(<<"1">>)>>,
              <<StrVal(<<" ","t","r","u","e"," ">>), StrVal(<<"n","o">>), NoneVal>>,
              <<StrVal(<<"1","7","0","0","0","0","0","0","0","0">>), StrVal(<<"1","7","0","0","0","0","0","0","0","0","0","0","0">>)>>,
              <<StrVal(<<"1","7","0","0","0","0","0","0","0","0">>), StrVal(<<"1","7","0","0","0","0","0","0","0","0","0","0","0","0","0","0">>)>>,
              <<StrVal(<<"1","7","0","0","0","0","0","0","0","0","0","0","0">>), StrVal(<<"1","7","0","0","0","0","0","0","0","0","0","0","0","0","0","0">>)>>,
              <<StrVal(<<"1","0","0","0","0","0","0","0","0","0","0","0","0">>), StrVal(<<"1","7","0","0","0","0","0","0","0","0">>)>>,
              <<StrVal(<<"1","7","0","0","0","0","0","0","0","0">>), StrVal(<<"1","7","0","0","0","0","0","0","0","0","0">>)>>,
              <<StrVal(<<"2","0","2","1","-","0","1","-","0","1">>), StrVal(<<"2","0","2","1","-","0","1","-","0","1"," ","1","0",":","2","0",":","3","0">>)>>,
              <<StrVal(<<"9",":","3","0">>), StrVal(<<"0","9",":","3","0",":","1","5",".","1","2","3">>)>>,
              <<IntVal(1), StrVal(<<"2">>)>>,
              <<BoolVal(TRUE), StrVal(<<"n","o">>)>> }}
    \cup {Column("int64", <<IntVal(1), IntVal(2)>>), Column("bool", <<BoolVal(TRUE)>>),
          Column("float64", <<FloatVal(<<"1",".","5">>)>>),
          Column("datetime64[ns]", <<[t |-> "datetime", s |-> <<"2","0","2","1","-","0","1","-","0","1">>]>>)}

\* DataFrames of one column, and some of two
CastFrames ==
    {<<c>> : c \in CastColumns}
    \cup {<<Column("object", <<StrVal(<<"1">>), StrVal(<<"2">>)>>), Column("object", <<StrVal(t), NoneVal>>)>> :
            t \in { <<"t","r","u","e">>, <<"1",".","5">>, <<"a","b","c">> }}

\* what the caller of cast_df gets: the DataFrame, its columns cast
ReturnFrame(df, n) ==
    [exc |-> "", msg |-> "", sql |-> <<>>, ptype |-> "frame", params |-> df, ids |-> n]

CallCastDf ==
    /\ CanCall
    /\ \E df \in CastFrames : Returns("cast_df", [df |-> df], ReturnFrame(CastDf(df), ids))

\* the caller takes the (sql, params) pair or the exception: the plan is consumed, never mutated
Consume ==
    /\ call.op # "idle"
    /\ call' = Idle
    /\ result' = NoResult
    /\ UNCHANGED <<ids, threadVars, connVars>>

Next ==
    \/ CallBuildWhere
    \/ CallSelect
    \/ CallInsertBulk
    \/ CallInsert
    \/ CallUpdate
    \/ CallDelete
    \/ CallUpsert
    \/ CallCreateTable
    \/ CallAdaptSql
    \/ CallJsonSelect
    \/ CallJsonInsert
    \/ CallJsonUpdate
    \/ CallJsonDelete
    \/ CallFromString
    \/ CallCastDf
    \/ Consume

Spec == Init /\ [][Next]_vars


-----------------------------------------------------------------------------
(* Condition.__init__ run by several threads.  The interpreter switches    *)
(* threads between bytecodes; next(self._ids) is one call into             *)
(* itertools.count, which runs to completion while the thread holds the    *)
(* interpreter lock.  The validation comes first, then the increment, then *)
(* the store of the id into the object.                                    *)

FieldArgs == {N_a, N_a_1, N_semicolon}
OpArgs == { <<"=">>, <<"i","n">>, <<"=","=">> }

\* conditions thread t has finished constructing
BuiltBy(t) == {i \in 1..Len(built) : built[i].thread = t}

\* the two validity checks of __init__ (lines 15-18): they raise before the counter is touched
Validate(t) ==
    /\ pc[t] = "idle"
    /\ Cardinality(BuiltBy(t)) < MaxPerThread
    /\ \E field \in FieldArgs, op \in OpArgs :
          pc' = [pc EXCEPT ![t] = IF ConditionInit(field, op, <<>>, <<>>, ids).exc = "" THEN "checked" ELSE "raised"]
    /\ UNCHANGED <<ids, call, result, uid, built, taken, connVars>>

\* the ValueError leaves __init__: nothing was constructed
Propagate(t) ==
    /\ pc[t] = "raised"
    /\ pc' = [pc EXCEPT ![t] = "idle"]
    /\ UNCHANGED <<ids, call, result, uid, built, taken, connVars>>

\* next(self._ids) (line 23, right-hand side): returns the counter's value and advances it
TakeId(t) ==
    /\ pc[t] = "checked"
    /\ uid' = [uid EXCEPT ![t] = ids]
    /\ ids' = NextId(ids)
    /\ taken' = Append(taken, ids)
    /\ pc' = [pc EXCEPT ![t] = "taken"]
    /\ UNCHANGED <<call, result, built, connVars>>

\* self._uid = ... (line 23, the store): the condition is constructed
StoreId(t) ==
    /\ pc[t] = "taken"
    /\ built' = Append(built, [thread |-> t, uid |-> uid[t]])
    /\ pc' = [pc EXCEPT ![t] = "idle"]
    /\ UNCHANGED <<ids, call, result, uid, taken, connVars>>

ThreadNext ==
    \E t \in Threads :
        \/ Validate(t)
        \/ Propagate(t)
        \/ TakeId(t)
        \/ StoreId(t)

ThreadSpec == Init /\ [][ThreadNext]_vars

-----------------------------------------------------------------------------
(* One connection (SqlCon with its DataCorrector) used by one caller: each  *)
(* action is one whole call of cols, fix_rows, append or of a function      *)
(* wrapped by retry; the caller then takes the outcome.                     *)

\* the connection is between two calls
Ready == ecall.op = "none"

\* cols may still ask the inspector about the table
MayAsk(table) == col_cache[table] # NotCached \/ queries[table] < MaxQueries

\* DataCorrector.cols(table), called by the user of the corrector
CallCols ==
    /\ Ready
    /\ \E table \in EngineTables :
          /\ MayAsk(table)
          /\ \E got \in ProviderAnswers(col_cache, schema, table) :
                Bind(CorrectorCols(col_cache, table, got), LAMBDA c :
                     /\ col_cache' = c.cache
                     /\ queries' = [queries EXCEPT ![table] = @ + c.asked]
                     /\ ecall' = [op |-> "cols", table |-> table, exc |-> c.exc, meta |-> c.meta,
                                  asked |-> c.asked])
    /\ UNCHANGED <<ids, call, result, threadVars, db, schema>>

Row_id_name == Mapping(<< <<"i","d">>, <<"n","a","m","e">> >>, <<StrVal(<<"7">>), StrVal(<<"b","o","b">>)>>)
Row_flag_none == Mapping(<< <<"f","l","a","g">>, <<"n","a","m","e">> >>, <<BoolVal(TRUE), NoneVal>>)
Row_unknown == Mapping(<< <<"i","d">>, <<"z","z">> >>, <<IntVal(3), StrVal(<<"x">>)>>)

\* the lists of rows fix_rows is called with
RowsArgs == {<<>>, <<Row_id_name>>, <<Row_flag_none, Row_id_name>>, <<Row_unknown, <<>>>>}

\* the values of the rows a coercion is run on: <<row, key>>
Cells(rows) == UNION {{<<r, rows[r][i].k>> : i \in 1..Len(rows[r])} : r \in 1..Len(rows)}

\* the values pandas rejects: none, one, or all
RaisingCells(rows) == {{}} \cup {{c} : c \in Cells(rows)} \cup {Cells(rows)}

\* DataCorrector.fix_rows(table, rows)
CallFixRows ==
    /\ Ready
    /\ \E table \in EngineTables, rows \in RowsArgs :
          /\ MayAsk(table)
          /\ \E got \in ProviderAnswers(col_cache, schema, table), bad \in RaisingCells(rows) :
                Bind(CorrectorCols(col_cache, table, got), LAMBDA c :
                     /\ col_cache' = c.cache
                     /\ queries' = [queries EXCEPT ![table] = @ + c.asked]
                     /\ ecall' = [op |-> "fix_rows", table |-> table, rows |-> rows, bad |-> bad,
                                  exc |-> c.exc, meta |-> c.meta, asked |-> c.asked,
                                  out |-> IF c.exc = "" THEN FixRows(db, c.meta, rows, bad) ELSE <<>>])
    /\ UNCHANGED <<ids, call, result, threadVars, db, schema>>

Col_id == Named(<<"i","d">>, Column("object", <<StrVal(<<"1">>), StrVal(<<"2">>)>>))
Col_name == Named(<<"n","a","m","e">>, Column("object", <<StrVal(<<"b","o","b">>), StrVal(<<"a","l">>)>>))
Col_flag == Named(<<"f","l","a","g">>, Column("bool", <<BoolVal(TRUE), BoolVal(FALSE)>>))
Col_empty == Named(<<"i","d">>, Column("int64", <<>>))

\* the tables and DataFrames append is called with
AppendArgs ==
    {[table |-> <<"t">>, df |-> df] : df \in {<<Col_id, Col_name>>, <<Col_name, Col_flag>>, <<Col_empty>>}}
    \cup {[table |-> <<"u">>, df |-> <<Col_id, Col_name>>]}

\* what pandas and the database do during one call of append: the failure of inspect_db,
\* of CREATE and DROP, of the insert of each pass, the columns whose ALTER the database
\* rejects, the columns pandas rejects
Faults ==
    {[inspect |-> f[1], ddl |-> f[2], bad |-> f[3], insert |-> f[4], rejected |-> f[5]] : f \in
        { <<"", "", {}, <<"", "">>, {}>>,
          <<"OperationalError", "", {}, <<"", "">>, {}>>,
          <<"", "OperationalError", {}, <<"", "">>, {}>>,
          <<"", "", { <<"i","d">> }, <<"", "">>, {}>>,
          <<"", "", {}, <<"IntegrityError", "">>, {}>>,
          <<"", "", {}, <<"IntegrityError", "">>, { <<"n","a","m","e">> }>>,
          <<"", "", {}, <<"DataError", "DataError">>, {}>>,
          <<"", "", { <<"i","d">> }, <<"DataError", "DataError">>, { <<"n","a","m","e">> }>> }}

\* the faults together with the answer of the inspector to get_columns
AppendEnvs(cache, s, table) ==
    {[answer |-> a] @@ f : a \in ProviderAnswers(cache, s, table), f \in Faults}

\* SqlCon.append(table, data, if_exists, repair)
CallAppend ==
    /\ Ready
    /\ \E a \in AppendArgs, if_exists \in { <<"a","p","p","e","n","d">>, <<"r","e","p","l","a","c","e">>, <<"F","i","l","t","e","r">> }, repair \in BOOLEAN :
          /\ MayAsk(a.table)
          /\ \E env \in AppendEnvs(col_cache, schema, a.table) :
                Bind(SqlConAppend(db, [schema |-> schema, cache |-> col_cache, queries |-> queries, log |-> <<>>,
                                       df |-> a.df, exc |-> "", insert_failed |-> FALSE],
                                  a.table, if_exists, repair, env, 1), LAMBDA st :
                     /\ schema' = st.schema
                     /\ col_cache' = st.cache
                     /\ queries' = st.queries
                     /\ ecall' = [op |-> "append", table |-> a.table, df |-> a.df, if_exists |-> if_exists,
                                  repair |-> repair, env |-> env, exc |-> st.exc, log |-> st.log])
    /\ UNCHANGED <<ids, call, result, threadVars, db>>

\* what one invocation of a wrapped function does
Outcomes == {"", "OperationalError", "InterfaceError", "ValueError"}

\* a call of a function wrapped by retry(tries, delay)
CallRetried ==
    /\ Ready
    /\ \E tries \in 0..MaxTries, delay \in 0..MaxDelay, outcomes \in [1..MaxTries -> Outcomes] :
          ecall' = [op |-> "retry", tries |-> tries, delay |-> delay, outcomes |-> outcomes]
                   @@ Retry(tries, delay, 1, outcomes)
    /\ UNCHANGED <<ids, call, result, threadVars, db, schema, col_cache, queries>>

\* the caller takes what the call returned or raised
Taken ==
    /\ ~Ready
    /\ ecall' = [op |-> "none"]
    /\ UNCHANGED <<ids, call, result, threadVars, db, schema, col_cache, queries>>

\* a connection to one of the databases
EngineInit ==
    /\ BuilderInit
    /\ \E d \in {S_mysql, S_sqlite} : Connected(d, InitialSchema(d))

EngineNext ==
    \/ CallCols
    \/ CallFixRows
    \/ CallAppend
    \/ Taken

EngineSpec == EngineInit /\ [][EngineNext]_vars

\* a caller of wrapped functions
RetryNext ==
    \/ CallRetried
    \/ Taken

RetrySpec == Init /\ [][RetryNext]_vars

-----------------------------------------------------------------------------
(* Properties of the sequential engine (specification Spec) *)

\* the call finished: it returned a pair, no exception
Returned == result.exc = ""

\* the call reads no WHERE conditions: conditions is None or an empty list
NoWhereGiven == call.conditions.none \/ call.conditions.items = <<>>

\* the names update and delete check before anything else
MutationNamesOk ==
    /\ IdentifierOk(call.table)
    /\ call.op = "update" => \A i \in 1..Len(call.data) : IdentifierOk(call.data[i].k)

RefusalOf(op) == IF op = "update" THEN "UPDATE without WHERE refused" ELSE "DELETE without WHERE refused"

\* C1: on every dialect, update and delete called with conditions None or empty and allow_full
\* false fail and return no SQL; the failure is the refusal of the unguarded mutation (a
\* ValueError), unless a name of the call is not an identifier, which is reported first.
UnsafeMutationRefused ==
    (call.op \in {"update", "delete"} /\ NoWhereGiven /\ ~call.allow_full)
        => /\ result.exc = "ValueError"
           /\ result.sql = <<>>
           /\ result.ptype = "none"
           /\ MutationNamesOk => result.msg = RefusalOf(call.op)

\* an update on mysql without conditions and without allow_full has been refused
UnsafeUpdateRefusedSeen ==
    /\ call.op = "update"
    /\ call.dialect = S_mysql
    /\ call.conditions.none
    /\ ~call.allow_full
    /\ result.msg = "UPDATE without WHERE refused"

\* the table and column names a builder call was given (order-by and group-by fields included)
NamesOfCall ==
    IF call.op = "select"
    THEN {call.args.table} \cup Range(call.args.columns.names) \cup Range(call.args.group_by)
         \cup {call.args.order_by[i].field : i \in 1..Len(call.args.order_by)}
    ELSE IF call.op \in {"update", "insert"} THEN {call.table} \cup Range(DictKeys(call.data))
    ELSE IF call.op = "delete" THEN {call.table}
    ELSE IF call.op = "insert_bulk" THEN {call.table} \cup UNION {Range(DictKeys(call.rows[i])) : i \in 1..Len(call.rows)}
    ELSE IF call.op = "upsert" THEN {call.table} \cup Range(DictKeys(call.data)) \cup Range(call.pk)
    ELSE IF call.op = "create_table"
    THEN {call.table} \cup Range(DictKeys(call.source.cols)) \cup Range(call.pk)
         \cup UNION {{call.fk[i].column, call.fk[i].ref_table, call.fk[i].ref_column} : i \in 1..Len(call.fk)}
    ELSE {}

\* C2: every table and column name in the SQL text a builder returned has passed the
\* identifier check and stands between the dialect's quote characters.
EveryNameCheckedAndQuoted ==
    Returned =>
        \A name \in NamesOfCall :
            Contains(result.sql, name) => IdentifierOk(name) /\ Contains(result.sql, Quote(call.dialect, name))

\* the grammar ^[A-Za-z0-9_]+$
AsciiIdentifier(name) == Len(name) >= 1 /\ AllIn(name, AsciiLetters \cup AsciiDigits \cup {"_"})

\* the field of one condition item: for a free text, its first token
FieldOfItem(item) ==
    IF item.kind = "text"
    THEN Bind(Tokenize(item.text, 1), LAMBDA tk :
              IF tk.exc = "" /\ tk.tokens # <<>> THEN tk.tokens[1].value ELSE <<>>)
    ELSE item.field

\* the fields of the condition items of a call
FieldsOfItems(items) == {FieldOfItem(items[i]) : i \in 1..Len(items)}

\* the names the code does run its identifier check on before the call can return
CheckedNamesOfCall ==
    IF call.op = "select"
    THEN {call.args.table} \cup Range(call.args.group_by)
         \cup {call.args.order_by[i].field : i \in 1..Len(call.args.order_by)}
         \cup FieldsOfItems(call.args.conditions.items)
    ELSE IF call.op = "build_where" THEN FieldsOfItems(call.conditions.items)
    ELSE IF call.op = "update"
    THEN {call.table} \cup Range(DictKeys(call.data))
         \cup FieldsOfItems(call.conditions.items)
    ELSE IF call.op = "delete"
    THEN {call.table} \cup FieldsOfItems(call.conditions.items)
    ELSE IF call.op = "insert" THEN {call.table} \cup Range(DictKeys(call.data))
    ELSE IF call.op = "insert_bulk" THEN {call.table} \cup Range(DictKeys(call.rows[1]))
    ELSE IF call.op = "upsert" THEN {call.table} \cup Range(DictKeys(call.data)) \cup Range(call.pk)
    ELSE IF call.op = "create_table" THEN {call.table} \cup Range(call.pk)
    ELSE {}

\* C3: the identifier check of Condition and of the builders accepts exactly the names of
\* ^[A-Za-z0-9_]+$: a call returns only when every name it checks is one, and no such name
\* is ever reported as an invalid table name.
IdentifierCheckIsAsciiGrammar ==
    /\ Returned => \A name \in CheckedNamesOfCall : AsciiIdentifier(name)
    /\ result.msg = "Invalid table name" => ~AsciiIdentifier(IF call.op = "select" THEN call.args.table ELSE call.table)

\* the conditions of the build_where call as objects (ids drawn from where the counter stood)
ObjectsOfCall == FromInputs(call.conditions.items, call.ids0).objs

\* the parameter names each condition of the call contributes, by position
ParamNamesOfCall ==
    [i \in 1..Len(ObjectsOfCall) |->
        Range(DictKeys(ToSql(ObjectsOfCall[i], call.dialect, placeholders(call.dialect),
                             quote_chars(call.dialect)).params))]

\* C4: in one build_where call the parameter names of different conditions are pairwise
\* distinct, so the merged mapping holds one entry per generated name.
ParameterNamesDistinct ==
    (call.op = "build_where" /\ ~NoWhereGiven /\ Returned) =>
        \A i, j \in 1..Len(ParamNamesOfCall) :
            i # j => ParamNamesOfCall[i] \cap ParamNamesOfCall[j] = {}

\* the names of the :name markers of sql, left to right
MarkerNames(sql) ==
    Bind(Ascending({i \in 1..(Len(sql) - 1) : sql[i] = ":" /\ IsWord(sql[i + 1])}), LAMBDA starts :
         [k \in 1..Len(starts) |-> SubSeq(sql, starts[k] + 1, RunEnd(sql, starts[k] + 1, WordChars))])

\* the canonical statement the adaptation started from
CanonicalOfCall ==
    IF call.op = "json_select"
    THEN Select(Lower(call.dialect), SelectArgsOf(call.payload), call.ids0)
    ELSE Return(call.sql, call.params, call.ids0)

\* C6: for mysql and sqlite the adapted statement has no :name marker left, and its parameters
\* are a sequence with one value per ?, the i-th being the value of the i-th placeholder.
PositionalParamsFollowPlaceholders ==
    (/\ call.op \in {"json_select", "adapt_sql"}
     /\ Lower(call.dialect) \in {S_mysql, S_sqlite}
     /\ call.op = "adapt_sql" => call.ptype = "dict"
     /\ Returned)
        => /\ MarkerNames(result.sql) = <<>>
           /\ result.ptype = "list"
           /\ Len(result.params) = Cardinality({i \in 1..Len(result.sql) : result.sql[i] = "?"})
           /\ result.params = [i \in 1..Len(MarkerNames(CanonicalOfCall.sql)) |->
                                  RowGet(CanonicalOfCall.params, MarkerNames(CanonicalOfCall.sql)[i])]

FiveDialects == {S_oracle, S_mssql, S_postgresql, S_mysql, S_sqlite}
JsonOps == {"json_select", "json_insert", "json_update", "json_delete"}

\* a condition list every item of which is well formed, with no combination expression
GoodWhere(payload, required) ==
    /\ "expression" \in payload.keys => payload.expression.none
    /\ IF "condition" \in payload.keys
       THEN \/ ~payload.condition.none /\ payload.condition.items \in GoodCondLists
            \/ ~required /\ payload.condition \in NoConditions
       ELSE ~required

\* the payload of the call is one the handler is specified to serve
ValidJsonCall ==
    IF call.op = "json_select"
    THEN /\ "table" \in call.payload.keys
         /\ AsciiIdentifier(call.payload.table)
         /\ GoodWhere(call.payload, FALSE)
    ELSE IF call.op = "json_insert"
    THEN /\ call.rows # <<>>
         /\ \A i \in 1..Len(call.rows) :
               /\ AsciiIdentifier(call.rows[i].table)
               /\ \A j \in 1..Len(call.rows[i].insertValues) : AsciiIdentifier(call.rows[i].insertValues[j].k)
    ELSE IF call.op = "json_update"
    THEN /\ {"table", "updateValues"} \subseteq call.payload.keys
         /\ "limit" \notin call.payload.keys
         /\ AsciiIdentifier(call.payload.table)
         /\ \A j \in 1..Len(call.payload.updateValues) : AsciiIdentifier(call.payload.updateValues[j].k)
         /\ GoodWhere(call.payload, TRUE)
    ELSE /\ "table" \in call.payload.keys
         /\ AsciiIdentifier(call.payload.table)
         /\ GoodWhere(call.payload, TRUE)

\* C7: json_select, json_insert, json_update and json_delete serve a valid payload on each of
\* oracle, mssql, postgresql, mysql and sqlite: the call returns, with a named mapping for
\* oracle, mssql and postgresql and an ordered sequence for mysql and sqlite.
JsonHandlersServeFiveDialects ==
    (call.op \in JsonOps /\ call.dialect \in FiveDialects /\ ValidJsonCall)
        => /\ Returned
           /\ result.ptype = IF call.dialect \in {S_mysql, S_sqlite} THEN "list" ELSE "dict"

\* the integer literals of an expression: its maximal runs of digits, as [from, to]
DigitRuns(e) ==
    {[from |-> i, to |-> RunEnd(e, i, AsciiDigits)] :
        i \in {k \in 1..Len(e) : IsDigit(e[k]) /\ (k = 1 \/ ~IsDigit(e[k - 1]))}}
LiteralsOf(e) == {TextToInt(SubSeq(e, r.from, r.to)) : r \in DigitRuns(e)}

\* C8: build_where with an expression fails, returning no SQL, whenever the expression has a
\* character other than digits, whitespace, the letters of AND and OR, and parentheses, or
\* an integer literal that is 0 or greater than the number of conditions.
BadExpressionFails ==
    (/\ call.op = "build_where"
     /\ ~call.expression.none
     /\ \/ ~AllIn(call.expression.text, ExprChars)
        \/ \E k \in LiteralsOf(call.expression.text) : k = 0 \/ k > Len(call.conditions.items))
        => ~Returned /\ result.sql = <<>>

\* the fragments of the conditions of the call, in input order
FragmentsOfCall == Compile(ObjectsOfCall, call.dialect, <<>>, <<>>).sql_parts

RECURSIVE SubstituteAll(_, _, _)
\* e from position i on with every integer literal k replaced by the k-th fragment
SubstituteAll(e, i, frags) ==
    IF i > Len(e) THEN <<>>
    ELSE IF IsDigit(e[i])
    THEN frags[TextToInt(SubSeq(e, i, RunEnd(e, i, AsciiDigits)))]
         \o SubstituteAll(e, RunEnd(e, i, AsciiDigits) + 1, frags)
    ELSE <<e[i]>> \o SubstituteAll(e, i + 1, frags)

\* an expression of the admitted characters whose literals all name a condition
ValidExpression(e, count) ==
    /\ Len(e) >= 1
    /\ AllIn(e, ExprChars)
    /\ \A k \in LiteralsOf(e) : 1 <= k /\ k <= count

\* C9: without an expression build_where joins the fragments with " AND " in input order; with
\* a valid expression it returns the expression with every integer literal k replaced by the
\* k-th fragment and every other character, parentheses included, unchanged.
WhereCombination ==
    (call.op = "build_where" /\ ~NoWhereGiven /\ Returned) =>
        IF call.expression.none
        THEN result.sql = Join(FragmentsOfCall, <<" ","A","N","D"," ">>)
        ELSE ValidExpression(call.expression.text, Len(FragmentsOfCall))
                => result.sql = SubstituteAll(call.expression.text, 1, FragmentsOfCall)

\* the outcome of adapt_sql tells exactly the names of the set S, compared without case
AdaptDialectSetIs(S) ==
    (call.op = "adapt_sql" /\ call.ptype = "dict") =>
        IF Lower(call.dialect) \in S THEN Returned
        ELSE result.exc = "ValueError" /\ result.msg = "Unknown dialect" /\ result.sql = <<>>

\* C10: given a parameter mapping, adapt_sql returns a result for every dialect name that is,
\* compared case-insensitively, one of oracle, mssql, mysql, postgres, postgresql, sqlite, and
\* fails with the unknown-dialect error for every other name.
AdaptDialectSetClosed ==
    AdaptDialectSetIs({S_oracle, S_mssql, S_mysql, S_postgres, S_postgresql, S_sqlite})

\* adapt_sql has served a dialect name written in capitals
AdaptMixedCaseSeen ==
    /\ call.op = "adapt_sql"
    /\ call.dialect = <<"M","y","S","Q","L">>
    /\ call.ptype = "dict"
    /\ Returned
    /\ result.ptype = "list"

\* C10 with the closed set read as oracle, mssql, mysql, postgresql, sqlite: adapt_sql returns a
\* result for exactly these names (compared without case) and fails for every other name.
AdaptDialectSetOfFive ==
    AdaptDialectSetIs({S_oracle, S_mssql, S_mysql, S_postgresql, S_sqlite})

\* the longest key of the mapping written at position i of sql
LongestKeyAt(sql, i, keys) ==
    CHOOSE k \in keys : StartsAt(sql, k, i) /\ \A o \in keys : StartsAt(sql, o, i) => Len(o) <= Len(k)

\* sql with every marker :k, k a key of the mapping (the longest that fits), written in the
\* style, and every other character unchanged (a key holds no colon: markers never overlap)
RewriteNamed(sql, keys, style) ==
    Bind(Ascending({i \in 1..Len(sql) : sql[i] = ":" /\ \E k \in keys : StartsAt(sql, k, i + 1)}), LAMBDA starts :
         Splice(sql, 1, [j \in 1..Len(starts) |->
             Bind(LongestKeyAt(sql, starts[j] + 1, keys), LAMBDA k :
                  [from |-> starts[j], to |-> starts[j] + Len(k), by |-> Marker(style, k)])]))

\* the call adapts a canonical statement with a named mapping for one of the dialects of S
AdaptsNamedFor(S) ==
    /\ call.op \in {"json_select", "adapt_sql"}
    /\ Lower(call.dialect) \in S
    /\ call.op = "adapt_sql" => call.ptype = "dict"
    /\ call.op = "json_select" => "table" \in call.payload.keys
    /\ CanonicalOfCall.exc = ""

\* C11: adapting a canonical statement with a named mapping returns, for oracle, the
\* statement unchanged; for mssql, the statement with every marker :name of the mapping
\* written @name; for postgresql, with every marker written %(name)s (and the generic
\* pagination tail rewritten); in all three cases the mapping comes back with the same keys
\* and values.
NamedMarkersRewritten ==
    AdaptsNamedFor({S_oracle, S_mssql, S_postgresql}) =>
        /\ Returned
        /\ result.ptype = "dict"
        /\ result.params = CanonicalOfCall.params
        /\ result.sql =
              IF Lower(call.dialect) = S_oracle THEN CanonicalOfCall.sql
              ELSE IF Lower(call.dialect) = S_mssql
              THEN RewriteNamed(CanonicalOfCall.sql, Range(DictKeys(CanonicalOfCall.params)), "at")
              ELSE SubPagination(RewriteNamed(CanonicalOfCall.sql,
                                              Range(DictKeys(CanonicalOfCall.params)), "pyformat"), FALSE)

\* text s ends with p
EndsWith(s, p) == Len(p) <= Len(s) /\ SubSeq(s, Len(s) - Len(p) + 1, Len(s)) = p

\* the pagination tails the dialect may render for a limit and an offset (optional integers):
\* OFFSET n [LIMIT m]; OFFSET n ROWS [FETCH NEXT m ROWS ONLY]; [LIMIT m] [OFFSET n]
ClaimedTails(dialect, limit, offset) ==
    IF dialect \in {S_postgresql, S_sqlite}
    THEN { <<" ","O","F","F","S","E","T"," ">> \o IntToText(OrZero(offset))
           \o (IF limit.none THEN <<>> ELSE <<" ","L","I","M","I","T"," ">> \o IntToText(limit.n)) }
    ELSE IF dialect \in {S_oracle, S_mssql}
    THEN { <<" ","O","F","F","S","E","T"," ">> \o IntToText(OrZero(offset)) \o <<" ","R","O","W","S">>
           \o (IF limit.none THEN <<>> ELSE <<" ","F","E","T","C","H"," ","N","E","X","T"," ">> \o IntToText(limit.n) \o <<" ","R","O","W","S"," ","O","N","L","Y">>) }
    ELSE { (IF limit.none THEN <<>> ELSE <<" ","L","I","M","I","T"," ">> \o IntToText(limit.n)) \o off :
              off \in (IF offset.none THEN {<<>>}
                       ELSE IF offset.n = 0 THEN {<<>>, <<" ","O","F","F","S","E","T"," ","0">>}
                       ELSE { <<" ","O","F","F","S","E","T"," ">> \o IntToText(offset.n) }) }

\* C12: a select given a limit and/or an offset returns, on each of oracle, mssql, mysql,
\* postgresql and sqlite, a statement that ends with the pagination of the dialect, and a
\* limit that was given is in the statement.
PaginationRendered ==
    (/\ call.op = "select"
     /\ call.dialect \in FiveDialects
     /\ ~call.args.limit.none \/ ~call.args.offset.none
     /\ Returned)
        => /\ \E tail \in ClaimedTails(call.dialect, call.args.limit, call.args.offset) :
                 EndsWith(result.sql, tail)
           /\ ~call.args.limit.none => Contains(result.sql, IntToText(call.args.limit.n))

\* the clause that makes the statement an upsert on the dialect, for the primary keys pk
UpsertClause(dialect, pk) ==
    IF dialect \in {S_sqlite, S_postgresql}
    THEN <<" ","O","N"," ","C","O","N","F","L","I","C","T"," ","(">> \o Join(QuoteAll(dialect, pk), <<","," ">>) \o <<")"," ","D","O"," ","U","P","D","A","T","E">>
    ELSE IF dialect = S_mysql THEN <<" ","O","N"," ","D","U","P","L","I","C","A","T","E"," ","K","E","Y"," ","U","P","D","A","T","E">>
    ELSE <<" ","W","H","E","N"," ","M","A","T","C","H","E","D">>

\* C13: upsert with a table, data and primary keys that pass the name check succeeds on each
\* of sqlite, postgresql, mysql, mssql and oracle: with ON CONFLICT (<primary keys>) DO UPDATE
\* on sqlite and postgresql, ON DUPLICATE KEY UPDATE on mysql, and MERGE INTO ... WHEN MATCHED
\* ... WHEN NOT MATCHED on mssql and oracle.
UpsertServesFiveDialects ==
    (/\ call.op = "upsert"
     /\ call.dialect \in FiveDialects
     /\ \A name \in {call.table} \cup Range(DictKeys(call.data)) \cup Range(call.pk) : IdentifierOk(name))
        => /\ Returned
           /\ Contains(result.sql, UpsertClause(call.dialect, call.pk))
           /\ call.dialect \in {S_mssql, S_oracle}
                 => /\ StartsAt(result.sql, <<"M","E","R","G","E"," ","I","N","T","O"," ">>, 1)
                    /\ Contains(result.sql, <<" ","W","H","E","N"," ","N","O","T"," ","M","A","T","C","H","E","D">>)

\* the rows an insert or insert_bulk call was given
RowsOfCall == IF call.op = "insert" THEN <<call.data>> ELSE call.rows

\* the cells of the rows, row by row, over the columns of the first row: name {col}_{rowIndex}
\* and the row's value for the column
CellsOfCall ==
    Bind(DictKeys(RowsOfCall[1]), LAMBDA cols :
         [c \in 1..(Len(RowsOfCall) * Len(cols)) |->
             Bind(((c - 1) \div Len(cols)) + 1, LAMBDA i :
             Bind(((c - 1) % Len(cols)) + 1, LAMBDA j :
                  [k |-> cols[j] \o <<"_">> \o IntToText(i - 1), v |-> RowGet(RowsOfCall[i], cols[j])]))])

\* one VALUES tuple per row, in row order, each naming the cells of its row
TuplesOfCall ==
    Bind(Len(DictKeys(RowsOfCall[1])), LAMBDA k :
         Join([i \in 1..Len(RowsOfCall) |->
                  <<"(">> \o Join([j \in 1..k |-> placeholders(call.dialect) \o CellsOfCall[(i - 1) * k + j].k], <<","," ">>) \o <<")">>],
              <<","," ">>))

\* C14: insert_bulk over n >= 1 rows and the k columns of the first row returns exactly n*k
\* parameters, one per cell in row order, named {col}_{rowIndex} (a sequence of the same
\* values on mysql and sqlite) and bound to the row's value for the column; on dialects other
\* than oracle and mssql the statement ends with one VALUES tuple per row in row order; and
\* insert(table, row) returns what insert_bulk(table, [row]) returns.
BulkInsertCells ==
    (call.op \in {"insert_bulk", "insert"} /\ Returned) =>
        /\ Len(result.params) = Len(RowsOfCall) * Len(RowsOfCall[1])
        /\ result.params = IF result.ptype = "dict" THEN CellsOfCall ELSE DictValues(CellsOfCall)
        /\ Cardinality(Range(DictKeys(CellsOfCall))) = Len(CellsOfCall)
        /\ call.dialect \notin {S_oracle, S_mssql} => EndsWith(result.sql, <<" ","V","A","L","U","E","S"," ">> \o TuplesOfCall)
        /\ call.op = "insert" => result = InsertBulk(call.dialect, call.table, <<call.data>>, call.ids0)

\* insert_bulk has returned the four cells of two different rows of two columns as a sequence
BulkInsertTwoRowsSeen ==
    /\ call.op = "insert_bulk"
    /\ call.dialect = S_sqlite
    /\ call.rows = <<Data_id_v, Data_id_w>>
    /\ Returned
    /\ result.params = <<V(7), StrVal(<<"w">>), V(8), StrVal(<<"z">>)>>

\* position i of s lies inside a single-quoted literal
InLiteral(s, i) == Cardinality({j \in 1..(i - 1) : s[j] = "'"}) % 2 = 1

\* the names of the placeholders of a fragment, as the adapter reads them (a colon and the
\* word characters after it), outside quoted literals
PlaceholderNames(frag) ==
    {SubSeq(frag, i + 1, RunEnd(frag, i + 1, WordChars)) :
        i \in {j \in 1..(Len(frag) - 1) : frag[j] = ":" /\ IsWord(frag[j + 1]) /\ ~InLiteral(frag, j)}}

\* what to_sql returns for the i-th condition of the build_where call
CompiledOfCall(i) ==
    ToSql(ObjectsOfCall[i], call.dialect, placeholders(call.dialect), quote_chars(call.dialect))

\* the number of parameters the operator of a condition calls for
ParamCount(c) ==
    IF c.op \in { <<"I","S"," ","N","U","L","L">>, <<"I","S"," ","N","O","T"," ","N","U","L","L">> } THEN 0
    ELSE IF c.op = <<"B","E","T","W","E","E","N">> THEN 2
    ELSE IF c.op \in { <<"I","N">>, <<"N","O","T"," ","I","N">> } THEN Len(c.values)
    ELSE 1

\* name is {field}_{instanceId}, or that followed by _ and a suffix
ParamNameOf(c, name) ==
    \/ name = PnameBase(c)
    \/ Len(name) > Len(PnameBase(c)) + 1 /\ StartsAt(name, PnameBase(c) \o <<"_">>, 1)

\* C15: for every condition a build_where call compiled, to_sql emits no parameter for
\* IS NULL / IS NOT NULL, two for BETWEEN, one per value for IN / NOT IN and one for LIKE /
\* ILIKE and the comparisons; every parameter name is {field}_{instanceId}, optionally
\* followed by _suffix; and every placeholder of the fragment names one of these parameters.
CompiledParameters ==
    (call.op = "build_where" /\ ~NoWhereGiven /\ Returned) =>
        \A i \in 1..Len(ObjectsOfCall) :
            /\ CompiledOfCall(i).exc = ""
            /\ Len(CompiledOfCall(i).params) = ParamCount(ObjectsOfCall[i])
            /\ \A name \in Range(DictKeys(CompiledOfCall(i).params)) : ParamNameOf(ObjectsOfCall[i], name)
            /\ PlaceholderNames(CompiledOfCall(i).frag) \subseteq Range(DictKeys(CompiledOfCall(i).params))

\* the comparison operators of the closed set
Comparisons == { <<"=">>, <<"!","=">>, <<"<",">">>, <<"<">>, <<">">>, <<"<","=">>, <<">","=">> }

\* a string of the form YYYY-MM-DD or YYYY-MM-DD HH:MM:SS
DateForm(val) ==
    /\ val.t = "str"
    /\ DatePart(val.s)
    /\ Len(val.s) = 10 \/ (TimePart(val.s) /\ Len(val.s) = 19)

\* the placeholder of a comparison as the fragment must show it on the dialect
CastOf(dialect, c) ==
    Bind(placeholders(dialect) \o PnameBase(c), LAMBDA ph_val :
         IF DateForm(c.values[1]) /\ dialect = S_oracle THEN <<" ","T","O","_","D","A","T","E","(">> \o ph_val \o <<",">>
         ELSE IF DateForm(c.values[1]) /\ dialect = S_mssql THEN <<" ","C","A","S","T","(">> \o ph_val \o <<" ","A","S"," ","D","A","T","E","T","I","M","E","2",")">>
         ELSE <<" ">> \o c.op \o <<" ">> \o ph_val)

\* C16: in every compiled comparison (=, !=, <>, <, >, <=, >=) whose value is a string of the
\* form YYYY-MM-DD or YYYY-MM-DD HH:MM:SS the placeholder stands inside TO_DATE(...) on oracle
\* and inside CAST(... AS DATETIME2) on mssql; on every other dialect, and for every other
\* value, the placeholder follows the operator unwrapped.
DateComparisonsCast ==
    (call.op \in {"build_where", "update", "delete"} /\ ~NoWhereGiven /\ Returned) =>
        \A i \in 1..Len(ObjectsOfCall) :
            ObjectsOfCall[i].op \in Comparisons =>
                IF DateForm(ObjectsOfCall[i].values[1]) /\ call.dialect \in {S_oracle, S_mssql}
                THEN Contains(FragmentsOfCall[i], CastOf(call.dialect, ObjectsOfCall[i]))
                ELSE EndsWith(FragmentsOfCall[i], CastOf(call.dialect, ObjectsOfCall[i]))

\* the arity invariant: no value for the null tests, two for BETWEEN, any number for
\* IN / NOT IN, one otherwise
ArityOk(c) ==
    IF c.op \in { <<"I","S"," ","N","U","L","L">>, <<"I","S"," ","N","O","T"," ","N","U","L","L">> } THEN Len(c.values) = 0
    ELSE IF c.op = <<"B","E","T","W","E","E","N">> THEN Len(c.values) = 2
    ELSE IF c.op \in { <<"I","N">>, <<"N","O","T"," ","I","N">> } THEN TRUE
    ELSE Len(c.values) = 1

\* C17: every Condition a call constructed from its inputs, whatever their shape, satisfies
\* the arity invariant: an input that would violate it is rejected at construction and
\* produces no Condition.
ArityInvariant ==
    /\ (call.op \in {"build_where", "update", "delete"} /\ ~NoWhereGiven) =>
            \A i \in 1..Len(ObjectsOfCall) : ArityOk(ObjectsOfCall[i])
    /\ (call.op = "from_string" /\ Returned) => ArityOk(result.params[1])

\* the words the tokenizer reads as keywords wherever they stand alone
KeywordWords == { <<"N","O","T">>, <<"I","N">>, <<"B","E","T","W","E","E","N">>, <<"L","I","K","E">>, <<"I","L","I","K","E">>, <<"A","N","D">>, <<"O","R">> }

\* an identifier of the free-text grammar: a letter or underscore, then word characters
TextIdentifier(s) ==
    /\ s # <<>>
    /\ s[1] \in AsciiLetters \cup {"_"}
    /\ AllIn(s, WordChars)
    /\ Upper(s) \notin KeywordWords

\* a numeric literal of the free-text grammar: digits, optionally a point and digits
NumericLiteral(s) ==
    /\ s # <<>>
    /\ AllIn(s, AsciiDigits \cup {"."})
    /\ IsDigit(s[1]) /\ IsDigit(s[Len(s)])
    /\ Cardinality({i \in 1..Len(s) : s[i] = "."}) <= 1

\* a quoted string literal, a quote inside it written twice
QuotedLiteral(s) ==
    Len(s) >= 2 /\ s[1] = "'" /\ s[Len(s)] = "'" /\ QuotedBodyOk(s, 2, Len(s) - 1)

\* the text of a literal: the number as written, the string without its quotes
LiteralText(s) == IF QuotedLiteral(s) THEN Unescape(SubSeq(s, 2, Len(s) - 1)) ELSE s

\* the value a literal stands for: a boolean word, else an integer, else a float, else a string
CoercedLiteral(s) ==
    IF Lower(Strip(s)) \in { <<"t","r","u","e">>, <<"y","e","s">>, <<"y">>, <<"1">> } THEN BoolVal(TRUE)
    ELSE IF Lower(Strip(s)) \in { <<"f","a","l","s","e">>, <<"n","o">>, <<"n">>, <<"0">> } THEN BoolVal(FALSE)
    ELSE IF IntParses(Strip(s)) THEN [t |-> "int", s |-> IntText(Strip(s))]
    ELSE IF FloatParses(Strip(s)) THEN FloatVal(Strip(s))
    ELSE StrVal(Strip(s))

\* the ways to read text as IDENT op literal, the parts separated by single spaces
ClauseReadings(text, ops) ==
    {r \in {[field |-> SubSeq(text, 1, i - 1), op |-> SubSeq(text, i + 1, j - 1),
             literal |-> SubSeq(text, j + 1, Len(text))] :
               i \in 1..Len(text), j \in 1..Len(text)} :
        /\ TextIdentifier(r.field)
        /\ Upper(r.op) \in ops
        /\ NumericLiteral(r.literal) \/ QuotedLiteral(r.literal)
        /\ text = r.field \o <<" ">> \o r.op \o <<" ">> \o r.literal}

\* the Condition from_string returned is field op values
Parsed(field, op, values) ==
    /\ Returned
    /\ result.ptype = "condition"
    /\ result.params[1].field = field
    /\ result.params[1].op = op
    /\ result.params[1].values = values

\* C18 for every operator alike: from_string on text IDENT op literal, op a comparison or
\* LIKE / ILIKE, returns the Condition of that field and operator whose one value is the
\* literal coerced in the order boolean word, integer, float, string.
EveryLiteralCoerced ==
    call.op = "from_string" =>
        \A r \in ClauseReadings(call.text, Comparisons \cup { <<"L","I","K","E">>, <<"I","L","I","K","E">> }) :
            Parsed(r.field, Upper(r.op), <<CoercedLiteral(LiteralText(r.literal))>>)

\* C18: from_string on text IDENT op literal with a comparison operator returns the
\* Condition of that field and operator whose one value is the literal coerced in the order
\* boolean word (true, yes, y, 1 / false, no, n, 0, in any case), integer, float, string;
\* with LIKE or ILIKE it returns the quoted literal as a string, not coerced, and fails
\* for a literal that is not quoted.
LiteralCoerced ==
    call.op = "from_string" =>
        /\ \A r \in ClauseReadings(call.text, Comparisons) :
               Parsed(r.field, r.op, <<CoercedLiteral(LiteralText(r.literal))>>)
        /\ \A r \in ClauseReadings(call.text, { <<"L","I","K","E">>, <<"I","L","I","K","E">> }) :
               IF QuotedLiteral(r.literal)
               THEN Parsed(r.field, Upper(r.op), <<StrVal(LiteralText(r.literal))>>)
               ELSE result.exc = "ValueError"

\* from_string has returned age > 30 with the integer 30
IntegerLiteralSeen ==
    /\ call.op = "from_string"
    /\ call.text = <<"a","g","e"," ",">"," ","3","0">>
    /\ Parsed(<<"a","g","e">>, <<">">>, <<IntVal(30)>>)

\* C19's grammar, on the tokens of a text: a value is one literal or bare word
ValueToken(tk) == tk.kind \in {"STRING", "NUMBER", "IDENT"}

\* ( items ), the items values and commas
ParenthesizedList(rest) ==
    /\ Len(rest) >= 2
    /\ rest[1].kind = "LP" /\ rest[Len(rest)].kind = "RP"
    /\ \A i \in 2..(Len(rest) - 1) : ValueToken(rest[i]) \/ rest[i].kind = "COMMA"

\* the value clause that belongs to the operator token(s) at the head of toks
ValueClauseOk(toks) ==
    IF toks = <<>> THEN FALSE
    ELSE IF toks[1].kind \in {"IS_NULL", "IS_NOT_NULL"} THEN Len(toks) = 1
    ELSE IF toks[1].kind = "COMP_OP" THEN Len(toks) = 2 /\ ValueToken(toks[2])
    ELSE IF toks[1].kind \in {"LIKE", "ILIKE"} THEN Len(toks) = 2 /\ toks[2].kind = "STRING"
    ELSE IF toks[1].kind = "BETWEEN"
    THEN Len(toks) = 4 /\ ValueToken(toks[2]) /\ toks[3].kind = "AND" /\ ValueToken(toks[4])
    ELSE IF toks[1].kind \in {"IN", "NOT_IN"} THEN ParenthesizedList(Tail(toks))
    ELSE IF toks[1].kind = "NOT" /\ Len(toks) >= 2 /\ toks[2].kind = "IN"
    THEN ParenthesizedList(Tail(Tail(toks)))
    ELSE FALSE

\* text is exactly IDENT OPERATOR value-clause
WellFormedText(text) ==
    Bind(Tokenize(text, 1), LAMBDA tk :
         /\ tk.exc = ""
         /\ tk.tokens # <<>>
         /\ tk.tokens[1].kind = "IDENT"
         /\ ValueClauseOk(Tail(tk.tokens)))

\* C19: from_string fails, and returns no Condition, for every text that is not exactly
\* IDENT OPERATOR value-clause: empty text, no identifier first, a missing or unknown
\* operator, a missing value, BETWEEN without value AND value, IN / NOT IN without a
\* parenthesized list, or extra tokens after a complete value clause.
MalformedTextFails ==
    call.op = "from_string" /\ ~WellFormedText(call.text) => ~Returned

\* the items written between the parentheses of ( items ), in order
ListedItems(rest) == SelectSeq(SubSeq(rest, 2, Len(rest) - 1), ValueToken)

\* the operator and the parenthesized list of a text field IN (...) / field NOT IN (...)
InListReadings(text) ==
    Bind(Tokenize(text, 1), LAMBDA tk :
         IF tk.exc # "" \/ Len(tk.tokens) < 2 \/ tk.tokens[1].kind # "IDENT" THEN {}
         ELSE Bind(Tail(tk.tokens), LAMBDA toks :
              IF toks[1].kind = "IN" /\ ParenthesizedList(Tail(toks))
              THEN {[field |-> tk.tokens[1].value, op |-> <<"I","N">>, list |-> Tail(toks)]}
              ELSE IF toks[1].kind = "NOT_IN" /\ ParenthesizedList(Tail(toks))
              THEN {[field |-> tk.tokens[1].value, op |-> <<"N","O","T"," ","I","N">>, list |-> Tail(toks)]}
              ELSE IF toks[1].kind = "NOT" /\ Len(toks) >= 2 /\ toks[2].kind = "IN"
                      /\ ParenthesizedList(Tail(Tail(toks)))
              THEN {[field |-> tk.tokens[1].value, op |-> <<"N","O","T"," ","I","N">>, list |-> Tail(Tail(toks))]}
              ELSE {}))

\* C20: for text field IN (...) or field NOT IN (...), the parsed condition holds exactly
\* one value per item written between the parentheses, in order, each item coerced on its
\* own; no listed item is dropped.
InListKeepsEveryItem ==
    call.op = "from_string" =>
        \A r \in InListReadings(call.text) :
            Bind(ListedItems(r.list), LAMBDA listed :
                 Parsed(r.field, r.op, [i \in 1..Len(listed) |-> Coerce(listed[i].value)]))

\* text with every run of digits replaced by one mark, so that texts that differ only in
\* numbers have the same image
WithoutNumbers(s) ==
    Bind(Ascending({i \in 1..Len(s) : ~IsDigit(s[i]) \/ i = 1 \/ ~IsDigit(s[i - 1])}), LAMBDA keep :
         [k \in 1..Len(keep) |-> IF IsDigit(s[keep[k]]) THEN "#" ELSE s[keep[k]]])

\* the same build_where call made once more, the counter being where the first call left it
CompiledAgain == BuildWhere(call.dialect, call.conditions, call.expression, result.ids)

\* C24: compiling the same condition list twice with the same dialect and expression yields
\* SQL that is identical except for the instance id inside the parameter names, and
\* parameter mappings that hold the same values in the same order.
CompilingTwiceAgrees ==
    (call.op = "build_where" /\ Returned) =>
        /\ CompiledAgain.exc = ""
        /\ WithoutNumbers(CompiledAgain.sql) = WithoutNumbers(result.sql)
        /\ DictValues(CompiledAgain.params) = DictValues(result.params)

\* the parameter names of the SET assignments of an update call
SetNamesOfCall == {<<"s","e","t","_">> \o call.data[i].k : i \in 1..Len(call.data)}

\* what build_where makes of the conditions of the call
WhereOfCall == BuildWhere(call.dialect, call.conditions, call.expression, call.ids0)

\* C25: in update the parameter names set_{col} of the SET assignments never coincide with
\* a parameter name generated for a WHERE condition, so the returned params hold every SET
\* value followed by every condition value.
SetAndWhereNamesApart ==
    (call.op = "update" /\ Returned /\ ~NoWhereGiven) =>
        /\ SetNamesOfCall \cap Range(DictKeys(WhereOfCall.params)) = {}
        /\ (IF result.ptype = "dict" THEN DictValues(result.params) ELSE result.params)
               = DictValues(call.data) \o DictValues(WhereOfCall.params)

\* C27: whenever update or delete returns SQL while allow_full is false, the SQL has a WHERE
\* clause that contains at least one compiled condition fragment.
MutationKeepsItsCondition ==
    (call.op \in {"update", "delete"} /\ Returned /\ ~call.allow_full) =>
        /\ Contains(result.sql, <<" ","W","H","E","R","E"," ">>)
        /\ \E i \in 1..Len(FragmentsOfCall) : Contains(result.sql, FragmentsOfCall[i])

\* where the placeholders of a statement stand: a colon followed by a word character, or a
\* question mark, outside quoted literals
PlaceholderPositions(sql) ==
    {j \in 1..Len(sql) :
        /\ ~InLiteral(sql, j)
        /\ \/ sql[j] = "?"
           \/ sql[j] = ":" /\ j < Len(sql) /\ IsWord(sql[j + 1])}

\* C26: for every (sql, params) pair returned by select, insert_bulk, update, delete or
\* upsert on one of the five dialects, placeholders and parameters correspond one to one:
\* every placeholder names a key of params and every key is named by a placeholder; for a
\* sequence of parameters the number of placeholders is its length.
PlaceholdersMatchParams ==
    (/\ call.op \in {"select", "insert_bulk", "update", "delete", "upsert"}
     /\ call.dialect \in FiveDialects
     /\ Returned)
        => IF result.ptype = "dict"
           THEN PlaceholderNames(result.sql) = Range(DictKeys(result.params))
           ELSE Cardinality(PlaceholderPositions(result.sql)) = Len(result.params)

\* the order the types are tried in
TypesInOrder ==
    <<"epochtime", "date", "time", "timestamp", "integer", "float", "boolean", "uuid", "email", "url", "json">>

\* columns cast_df leaves alone: typed already, or without a non-null value
LeftAlone(col) ==
    \/ col.dtype # "object"
    \/ \A i \in 1..Len(col.values) : col.values[i].t = "none"

\* every non-null trimmed value of the column matches a pattern of the k-th type
AllValuesMatch(col, k) ==
    \A i \in 1..Len(col.values) :
        col.values[i].t # "none" => MatchesType(TypesInOrder[k], Strip(col.values[i].s))

ColumnOfTexts(col, texts) ==
    /\ col.dtype = "object"
    /\ col.values = [i \in 1..Len(texts) |-> StrVal(texts[i])]

\* C21: cast_df gives each column that is not numeric, boolean or datetime already (and has a
\* non-null value) the first type, in the order epochtime, date, time, timestamp, integer,
\* float, boolean, uuid, email, url, json, whose patterns every non-null trimmed value
\* matches; ['1','2','3'] becomes integer and ['true','no','1'] boolean [True, False, True].
FirstMatchingTypeInferred ==
    call.op = "cast_df" =>
        \A c \in 1..Len(call.df) :
            /\ ~LeftAlone(call.df[c]) =>
                   \A k \in 1..Len(TypesInOrder) :
                       result.params[c].matched = TypesInOrder[k]
                           <=> /\ AllValuesMatch(call.df[c], k)
                               /\ \A j \in 1..(k - 1) : ~AllValuesMatch(call.df[c], j)
            /\ ColumnOfTexts(call.df[c], << <<"1">>, <<"2">>, <<"3">> >>) =>
                   /\ result.params[c].matched = "integer"
                   /\ result.params[c].dtype = "Int64"
            /\ ColumnOfTexts(call.df[c], << <<"t","r","u","e">>, <<"n","o">>, <<"1">> >>) =>
                   /\ result.params[c].matched = "boolean"
                   /\ result.params[c].values = <<BoolVal(TRUE), BoolVal(FALSE), BoolVal(TRUE)>>

\* cast_df has returned the column ['true','no','1'] as the booleans True, False, True
BooleanColumnInferred ==
    /\ call.op = "cast_df"
    /\ ColumnOfTexts(call.df[1], << <<"t","r","u","e">>, <<"n","o">>, <<"1">> >>)
    /\ result.params[1].dtype = "boolean"
    /\ result.params[1].values = <<BoolVal(TRUE), BoolVal(FALSE), BoolVal(TRUE)>>

\* the largest value of the column exceeds 10^k
ColumnMaxExceeds(col, k) ==
    \E i \in 1..Len(col.values) :
        /\ col.values[i].t # "none"
        /\ ExceedsPowerOfTen(Strip(col.values[i].s), k)

\* C22: a column inferred as epochtime is converted in microseconds when its maximum exceeds
\* 1e15, in milliseconds when it exceeds 1e12 but not 1e15, and in seconds otherwise.
EpochUnitFollowsMaximum ==
    call.op = "cast_df" =>
        \A c \in 1..Len(call.df) :
            result.params[c].matched = "epochtime" =>
                result.params[c].unit =
                    IF ColumnMaxExceeds(call.df[c], 15) THEN "us"
                    ELSE IF ColumnMaxExceeds(call.df[c], 12) THEN "ms"
                    ELSE "s"

-----------------------------------------------------------------------------
(* Properties of the connection (specification EngineSpec) *)

\* the values of a row whose key is a column of the table
KnownCells(meta, row) == SelectSeq(row, LAMBDA c : HasKey(meta, c.k))

\* the coercion of the value raises
CoercionRaises(type_str, r, key) ==
    /\ CoercerOf(db, BaseType(type_str)) # ""
    /\ CoercerRaises(CoercerOf(db, BaseType(type_str)), type_str, <<r, key>> \in ecall.bad)

\* C23: once it has the column types of the table (the lookup is made before the rows are
\* read and its error is the only one fix_rows raises), fix_rows returns one row per input
\* row, holding the values whose key is a column of the table: None stays None, a value
\* whose coercion raises becomes None, a value of a base type without a coercer becomes
\* its string, and every other value is coerced.
FixRowsIsolatesFailures ==
    ecall.op = "fix_rows" =>
        /\ ecall.exc # "" => ecall.asked = 1 /\ ecall.out = <<>>
        /\ ecall.exc = "" =>
              /\ Len(ecall.out) = Len(ecall.rows)
              /\ \A r \in 1..Len(ecall.rows) :
                    /\ Len(ecall.out[r]) = Len(KnownCells(ecall.meta, ecall.rows[r]))
                    /\ \A i \in 1..Len(ecall.out[r]) :
                          /\ ecall.out[r][i].k = KnownCells(ecall.meta, ecall.rows[r])[i].k
                          /\ ecall.out[r][i].v =
                                Bind(KnownCells(ecall.meta, ecall.rows[r])[i], LAMBDA c :
                                     IF c.v.t = "none" THEN NoneVal
                                     ELSE IF CoercerOf(db, BaseType(Get(ecall.meta, c.k))) = "" THEN AsStr(c.v)
                                     ELSE IF CoercionRaises(Get(ecall.meta, c.k), r, c.k) THEN NoneVal
                                     ELSE Coerced(CoercerOf(db, BaseType(Get(ecall.meta, c.k))),
                                                  Get(ecall.meta, c.k), c.v))

\* fix_rows has returned two rows: in the second the coercion of id raised and left None
\* beside the coerced name, in the first the value of a type without coercer is a string
RaisingValueBecameNone ==
    /\ ecall.op = "fix_rows"
    /\ ecall.exc = ""
    /\ ecall.rows = <<Row_flag_none, Row_id_name>>
    /\ ecall.out[2] = Mapping(<< <<"i","d">>, <<"n","a","m","e">> >>, <<NoneVal, StrVal(<<"b","o","b">>)>>)
    /\ ecall.out[1] = Mapping(<< <<"f","l","a","g">>, <<"n","a","m","e">> >>, <<StrVal(<<"T","r","u","e">>), NoneVal>>)

\* C23 as stated: fix_rows never fails, and returns for every input row every value of it
FixRowsNeverFails ==
    ecall.op = "fix_rows" =>
        /\ ecall.exc = ""
        /\ Len(ecall.out) = Len(ecall.rows)
        /\ \A r \in 1..Len(ecall.rows) : \A i \in 1..Len(ecall.rows[r]) :
               \E j \in 1..Len(ecall.out[r]) : ecall.out[r][j].k = ecall.rows[r][i].k

\* C28: cols asks the schema provider about a table only while the table is not in the
\* cache; once a query has succeeded the cached mapping of the table is never changed,
\* dropped or refreshed and the provider is never asked about the table again, whatever
\* the connection does (append's repair and its alterations included).
CacheNeverRefreshed ==
    [][\A t \in EngineTables :
          col_cache[t].cached => col_cache'[t] = col_cache[t] /\ queries'[t] = queries[t]]_vars

\* the types the inspector would report for the table now, in the form cols caches them
LiveTypes(t) == [i \in 1..Len(schema[t].columns) |->
                    [k |-> schema[t].columns[i].k, v |-> Upper(schema[t].columns[i].v)]]

\* cols has returned the cached mapping of a table without asking, after a repair altered a
\* column of the table: the mapping is not what the database holds
StaleMappingReturned ==
    /\ ecall.op = "cols"
    /\ ecall.asked = 0
    /\ queries[ecall.table] = 1
    /\ ecall.meta = col_cache[ecall.table].meta
    /\ schema[ecall.table].exists
    /\ Len(schema[ecall.table].columns) = Len(ecall.meta)
    /\ LiveTypes(ecall.table) # ecall.meta

\* C28 as stated: the provider is asked at most once per table
AskedAtMostOncePerTable == \A t \in EngineTables : queries[t] <= 1

\* the entries of the record of an append call that are of kind e
Entries(e) == {i \in 1..Len(ecall.log) : ecall.log[i].e = e}

\* the first insert of the call was sent and failed
FirstInsertFailed == Entries("insert") # {} /\ ecall.env.insert[1] # ""

\* the DataFrame as the repair loop reads it: coerced by fix_df, cast by create_table_schema
\* when the first pass created the table
RepairFrame ==
    Bind(FixDf(db, col_cache[ecall.table].meta, ecall.df, ecall.env.bad), LAMBDA fixed :
         IF Entries("create") # {} THEN CastInPlace(fixed) ELSE fixed)

\* the columns whose cached type is not the type of their dtype
Mismatched ==
    {RepairFrame[c].name : c \in {c \in 1..Len(RepairFrame) :
        /\ HasKey(col_cache[ecall.table].meta, RepairFrame[c].name)
        /\ Get(col_cache[ecall.table].meta, RepairFrame[c].name)
               \notin {<<>>, DtypeToSql(db, LowerDtype(RepairFrame[c].dtype))}}}

\* the statement of one ALTER was sent at most once per column
AlteredOnce ==
    \A i \in Entries("alter"), j \in Entries("alter") : ecall.log[i].col = ecall.log[j].col => i = j

\* what the caller gets when an alteration raises
AlterErrors == {"NotImplementedError", Execute("ProgrammingError")}

\* C30: append runs at most twice per call and only the first run repairs.  With repair
\* disabled a failed insert propagates and no column is altered.  With repair enabled a
\* failed insert is followed by one ALTER per mismatched column, in order, until one raises:
\* if one raises, its error propagates and append is not run again; otherwise append runs
\* once more with repair disabled, every mismatched column having been altered once, and
\* the outcome of the second insert is the outcome of the call.
AppendRepairsAtMostOnce ==
    ecall.op = "append" =>
        /\ Cardinality(Entries("append")) <= 2
        /\ Cardinality(Entries("insert")) <= Cardinality(Entries("append"))
        /\ \A i \in Entries("append") : ecall.log[i].repair <=> (i = 1 /\ ecall.repair)
        /\ AlteredOnce
        /\ {ecall.log[i].col : i \in Entries("alter")} \subseteq Mismatched
        /\ ~FirstInsertFailed => Cardinality(Entries("append")) = 1 /\ Entries("alter") = {}
        /\ FirstInsertFailed /\ ~ecall.repair =>
               /\ Cardinality(Entries("append")) = 1
               /\ Entries("alter") = {}
               /\ ecall.exc = ecall.env.insert[1]
        /\ FirstInsertFailed /\ ecall.repair =>
               \/ /\ Cardinality(Entries("append")) = 1
                  /\ Cardinality(Entries("insert")) = 1
                  /\ ecall.exc \in AlterErrors
               \/ /\ Cardinality(Entries("append")) = 2
                  /\ Cardinality(Entries("insert")) = 2
                  /\ {ecall.log[i].col : i \in Entries("alter")} = Mismatched
                  /\ ecall.exc = ecall.env.insert[2]

\* an append whose insert failed has altered a column, run again and inserted the rows
RepairedAndInsertedAgain ==
    /\ ecall.op = "append"
    /\ ecall.repair
    /\ FirstInsertFailed
    /\ Entries("alter") # {}
    /\ Cardinality(Entries("append")) = 2
    /\ Cardinality(Entries("insert")) = 2
    /\ ecall.exc = ""

\* C30 as stated: with repair enabled a failed insert is always followed by the alteration
\* of the mismatched columns and by exactly one more run of append
FailedInsertRunsAppendAgain ==
    ecall.op = "append" =>
        /\ Cardinality(Entries("append")) <= 2
        /\ AlteredOnce
        /\ FirstInsertFailed /\ ~ecall.repair =>
               /\ Entries("alter") = {}
               /\ ecall.exc = ecall.env.insert[1]
        /\ FirstInsertFailed /\ ecall.repair =>
               /\ Cardinality(Entries("append")) = 2
               /\ {ecall.log[i].col : i \in Entries("alter")} = Mismatched
               /\ ecall.exc = ecall.env.insert[2]

-----------------------------------------------------------------------------
(* Properties of retry (specification RetrySpec) *)

\* the invocations that end the wrapped call: a return or an exception retry does not catch
Decisive(tries, outcomes) == {i \in 1..tries : outcomes[i] \notin DriverErrors}

\* C29: a call wrapped by retry(tries, delay) invokes the function at most tries times; it
\* returns the result of the first invocation that succeeds, invokes again only after an
\* OperationalError or InterfaceError of an invocation that is not the last, raises the
\* error of the last invocation, and lets any other exception out without another try.
RetryFollowsPolicy ==
    ecall.op = "retry" =>
        /\ ecall.calls <= ecall.tries
        /\ \A k \in Decisive(ecall.tries, ecall.outcomes) :
               (\A j \in Decisive(ecall.tries, ecall.outcomes) : k <= j) =>
                   /\ ecall.calls = k
                   /\ ecall.exc = ecall.outcomes[k]
                   /\ ecall.outcomes[k] = "" => ecall.returned = k
        /\ Decisive(ecall.tries, ecall.outcomes) = {} /\ ecall.tries >= 1 =>
               /\ ecall.calls = ecall.tries
               /\ ecall.exc = ecall.outcomes[ecall.tries]

-----------------------------------------------------------------------------
(* Properties of the concurrent construction (specification ThreadSpec) *)

\* C5: conditions constructed concurrently never share an id, whether stored already or still
\* held by the constructing thread, and the ids are handed out in strictly increasing order.
IdsUniqueAndIncreasing ==
    /\ \A i, j \in 1..Len(built) : i # j => built[i].uid # built[j].uid
    /\ \A t, u \in Threads : (t # u /\ pc[t] = "taken" /\ pc[u] = "taken") => uid[t] # uid[u]
    /\ \A t \in Threads, i \in 1..Len(built) : pc[t] = "taken" => built[i].uid # uid[t]
    /\ \A i, j \in 1..Len(taken) : i < j => taken[i] < taken[j]

\* two threads hold freshly taken ids at once, after conditions were already stored
ConcurrentTakesSeen ==
    /\ \A t \in Threads : pc[t] = "taken"
    /\ Len(built) >= 2

=============================================================================
